---- MODULE Spec2Model ----
(***************************************************************************)
(* The FUNSD field classifier notebook (src/unnamed/part_000): the         *)
(* RobertaClass network, calcuate_accuracy, and the train / valid /        *)
(* test_label_generator loops, as a state machine.                         *)
(*                                                                         *)
(* Tensors keep their real shapes (768, 2048, 3072, 512, 4 ...).  Their    *)
(* contents are quantised: a dimension that is a multiple of Unit (the     *)
(* greatest common divisor of the layer widths) is held as one integer     *)
(* cell per block of Unit coordinates, any other dimension cell by cell.   *)
(* Library operations (cat, MaxPool2d, squeeze, Linear, Tanh, Dropout,     *)
(* max) act on shapes exactly as torch does and on cells as integers.      *)
(***************************************************************************)
EXTENDS Integers, Sequences, FiniteSets, TLC

\* ------------------------------------------------------------------ bounds
MaxB == 3          \* largest batch handed to a direct forward call
MaxW == 1          \* weight versions 0..MaxW a direct forward call may meet
MaxDrop == 2       \* states of the dropout random generator, 1..MaxDrop
Quant == 2         \* Tanh saturates at +-Quant in the quantised cells
MaxTrain == 2      \* calls of train(epoch) in one behaviour
MaxShift == 1      \* the shuffles the sampler may draw: rotations by 0..MaxShift
MaxArr == 4        \* longest label array handed to calcuate_accuracy on its own
MaxRows == 3       \* most rows of a table where the cells that build them are followed
MaxLack == 1       \* most rows a visual table lacks
MaxThousand == 2   \* most thousands of rows of one class in the MultiNLI training split
MaxGpus == 1       \* most GPUs of the machine the MultiNLI notebook runs on

\* ------------------------------------------------------- program constants
MAX_LEN == 100
TRAIN_BATCH_SIZE == 32
VALID_BATCH_SIZE == TRAIN_BATCH_SIZE * 2
EncDim == 768      \* hidden size of bert-base-uncased (l1)
NumClasses == 4    \* out_features of classifier

\* The Linear layers of RobertaClass.__init__: in_features, out_features,
\* and an index that selects the layer's own weights.
pre_classifier == [name |-> "pre_classifier", in |-> 768, out |-> 768, id |-> 1]
h1 == [name |-> "h1", in |-> 768, out |-> 768, id |-> 2]
h2 == [name |-> "h2", in |-> 768, out |-> 768, id |-> 3]
h3 == [name |-> "h3", in |-> 768, out |-> 768, id |-> 4]
h4 == [name |-> "h4", in |-> 768, out |-> 768, id |-> 5]
hidden0 == [name |-> "hidden0", in |-> 2304, out |-> 256, id |-> 6]
hidden1 == [name |-> "hidden1", in |-> 2048, out |-> 768, id |-> 7]
hidden2 == [name |-> "hidden2", in |-> 3072, out |-> 512, id |-> 8]
\* A variant of hidden3 sized for three concatenated branches (hidden0's
\* in_features) instead of four.
hidden3_three == [name |-> "hidden3", in |-> 2304, out |-> 3072, id |-> 9]
hidden3 == [name |-> "hidden3", in |-> 3072, out |-> 3072, id |-> 9]
hidden4 == [name |-> "hidden4", in |-> 1024, out |-> 768, id |-> 10]
classifier == [name |-> "classifier", in |-> 512, out |-> NumClasses, id |-> 11]

Layers == {pre_classifier, h1, h2, h3, h4, hidden0, hidden1, hidden2, hidden3,
           hidden4, classifier}

\* self.pooling = MaxPool2d((2,1), stride=None): stride defaults to the kernel.
PoolKernel == <<2, 1>>
PoolStride == PoolKernel

\* ------------------------------------------------------------ quantisation
RECURSIVE GCD(_, _)
GCD(a, b) == IF b = 0 THEN a ELSE GCD(b, a % b)

Unit == GCD(GCD(GCD(768, 2048), GCD(3072, 512)), GCD(GCD(2304, 256), 1024))

Cells(w) == IF w % Unit = 0 THEN w \div Unit ELSE w

Max2(a, b) == IF a >= b THEN a ELSE b
Min2(a, b) == IF a <= b THEN a ELSE b

\* Sequences built from [k \in 1..n |-> e] are turned into explicit tuples, so
\* that a cell is computed once however many later operations read it.
Tup(f) == f \o <<>>

\* The n-cell row and the B-by-n matrix with the given cells.
RowOf(n, Cell(_)) == Tup([c \in 1..n |-> Cell(c)])
MatOf(B, n, Cell(_, _)) == Tup([r \in 1..B |-> Tup([c \in 1..n |-> Cell(r, c)])])

\* ------------------------------------------------------------------ tensors
\* A tensor: err = "" and shape/data, or err # "" (the exception raised).
\* data is nested sequences following shape; hist lists the operations that
\* produced it, oldest first.
Tensor(shape, data, hist) == [err |-> "", shape |-> shape, data |-> data, hist |-> hist]
Raise(e) == [err |-> e, shape |-> <<>>, data |-> <<>>, hist |-> <<>>]
IsErr(t) == t.err # ""
Rows(t) == t.shape[1]

\* x.unsqueeze(1): a new dimension of size 1 at position 1.
Unsqueeze1(t) ==
  IF IsErr(t) THEN t
  ELSE IF Len(t.shape) = 2
    THEN Tensor(<<t.shape[1], 1, t.shape[2]>>,
                Tup([r \in 1..Len(t.data) |-> <<t.data[r]>>]),
                Append(t.hist, "unsqueeze"))
  ELSE Raise("DimError")

\* torch.cat((a, b), 1) of two 3-D tensors: all dimensions but 1 must agree.
Cat3(a, b) ==
  IF IsErr(a) THEN a ELSE IF IsErr(b) THEN b
  ELSE IF Len(a.shape) = 3 /\ Len(b.shape) = 3
          /\ a.shape[1] = b.shape[1] /\ a.shape[3] = b.shape[3]
    THEN Tensor(<<a.shape[1], a.shape[2] + b.shape[2], a.shape[3]>>,
                Tup([r \in 1..Len(a.data) |-> a.data[r] \o b.data[r]]),
                <<"cat">>)
  ELSE Raise("DimError")

\* A variant of the pooling window that keeps its first cell (a (1,1) kernel).
PoolFirst(rowdata, i, j) ==
  rowdata[(i - 1) * PoolStride[1] + 1][(j - 1) * PoolStride[2] + 1]

\* MaxPool2d(kernel, stride) on an (N, H, W) input: window maximum.
PoolAt(rowdata, i, j) ==
  LET h0 == (i - 1) * PoolStride[1]
      w0 == (j - 1) * PoolStride[2]
      win == {rowdata[h0 + dh][w0 + dw] : dh \in 1..PoolKernel[1], dw \in 1..PoolKernel[2]}
  IN CHOOSE m \in win : \A v \in win : m >= v

Pooling(t) ==
  IF IsErr(t) THEN t
  ELSE IF Len(t.shape) = 3 /\ t.shape[2] >= PoolKernel[1] /\ t.shape[3] >= PoolKernel[2]
    THEN LET oh == ((t.shape[2] - PoolKernel[1]) \div PoolStride[1]) + 1
             ow == ((t.shape[3] - PoolKernel[2]) \div PoolStride[2]) + 1
         IN Tensor(<<t.shape[1], oh, ow>>,
                   Tup([r \in 1..Len(t.data) |->
                          MatOf(oh, Cells(ow), LAMBDA i, j : PoolAt(t.data[r], i, j))]),
                   Append(t.hist, "pool"))
  ELSE Raise("DimError")

\* x.squeeze(1): drops dimension 1 when its size is 1, else leaves x alone.
Squeeze1(t) ==
  IF IsErr(t) THEN t
  ELSE IF Len(t.shape) = 3 /\ t.shape[2] = 1
    THEN Tensor(<<t.shape[1], t.shape[3]>>,
                Tup([r \in 1..Len(t.data) |-> t.data[r][1]]),
                Append(t.hist, "squeeze"))
  ELSE t

\* x.squeeze(): drops every dimension of size 1.
SqueezeAll(t) ==
  IF IsErr(t) THEN t
  ELSE IF Len(t.shape) = 2 /\ t.shape[1] = 1 /\ t.shape[2] # 1
    THEN Tensor(<<t.shape[2]>>, t.data[1], Append(t.hist, "squeeze"))
  ELSE IF Len(t.shape) = 2 /\ t.shape[1] # 1 /\ t.shape[2] = 1
    THEN Tensor(<<t.shape[1]>>, Tup([r \in 1..Len(t.data) |-> t.data[r][1]]),
                Append(t.hist, "squeeze"))
  ELSE IF Len(t.shape) = 2 /\ t.shape[1] = 1 /\ t.shape[2] = 1
    THEN Tensor(<<>>, t.data[1][1], Append(t.hist, "squeeze"))
  ELSE t

\* torch.cat(parts, 1) of 2-D tensors: row counts must agree, widths add up.
RECURSIVE Cat2(_)
Cat2(parts) ==
  IF Len(parts) = 1
    THEN (IF IsErr(parts[1]) THEN parts[1]
          ELSE IF Len(parts[1].shape) = 2
            THEN Tensor(parts[1].shape, parts[1].data, <<"cat">>)
          ELSE Raise("DimError"))
  ELSE LET a == parts[1]
           b == Cat2(Tail(parts))
       IN IF IsErr(a) THEN a ELSE IF IsErr(b) THEN b
          ELSE IF Len(a.shape) = 2 /\ a.shape[1] = b.shape[1]
            THEN Tensor(<<a.shape[1], a.shape[2] + b.shape[2]>>,
                        Tup([r \in 1..Len(a.data) |-> a.data[r] \o b.data[r]]),
                        <<"cat">>)
          ELSE Raise("DimError")

\* ------------------------------------------------------------------ layers
\* The weight and bias of a layer under weight version w (quantised).
Wt(layer, w, j, i) == ((w + layer.id + 2 * j + i + ((i * j) % 2)) % 3) - 1
Bias(layer, w, j) == ((w * 2 + layer.id + j) % 3) - 1

RECURSIVE Dot(_, _, _, _, _)
Dot(layer, w, j, x, i) ==
  IF i = 0 THEN 0 ELSE Wt(layer, w, j, i) * x[i] + Dot(layer, w, j, x, i - 1)

\* torch.nn.Linear: y = x W^T + b on the last dimension, which must be
\* in_features wide (forward only ever hands it 2-D tensors).
Linear(layer, w, t) ==
  IF IsErr(t) THEN t
  ELSE IF Len(t.shape) = 2 /\ t.shape[2] = layer.in
    THEN Tensor(<<t.shape[1], layer.out>>,
                MatOf(Len(t.data), Cells(layer.out),
                      LAMBDA r, j : Dot(layer, w, j, t.data[r], Len(t.data[r]))
                                      + Bias(layer, w, j)),
                Append(t.hist, layer.name))
  ELSE Raise("DimError")

\* torch.nn.Tanh: element-wise, odd, monotone, saturating.
TanhCell(v) == Max2(0 - Quant, Min2(Quant, v))

Tanh(t) ==
  IF IsErr(t) THEN t
  ELSE Tensor(t.shape,
              Tup([r \in 1..Len(t.data) |->
                     RowOf(Len(t.data[r]), LAMBDA c : TanhCell(t.data[r][c]))]),
              Append(t.hist, "Tanh"))

\* torch.nn.Dropout(0.1): in training mode zeroes the cells the random
\* generator (state rng, call site k) selects; the identity in evaluation mode.
Dropped(rng, k, r, c) == (rng + k + 2 * r + c) % 3 = 0

\* A variant of Dropout that ignores the mode (functional dropout called with
\* training=True).
DropoutAlways(training, rng, k, t) ==
  IF IsErr(t) THEN t
  ELSE Tensor(t.shape,
              Tup([r \in 1..Len(t.data) |->
                     RowOf(Len(t.data[r]),
                           LAMBDA c : IF Dropped(rng, k, r, c) THEN 0 ELSE t.data[r][c])]),
              Append(t.hist, "dropout"))

Dropout(training, rng, k, t) ==
  IF IsErr(t) THEN t
  ELSE Tensor(t.shape,
              Tup([r \in 1..Len(t.data) |->
                     RowOf(Len(t.data[r]),
                           LAMBDA c : IF training /\ Dropped(rng, k, r, c) THEN 0
                                      ELSE t.data[r][c])]),
              Append(t.hist, "dropout"))

\* self.l1(...)[0][:, 0]: the encoder's first-position hidden state, one
\* EncDim-wide row per row of input_ids.
EncCell(w, toks, mask, c) == ((w + c + toks[2] * mask[2] + 2 * toks[3] * mask[3]) % 5) - 2

L1(w, input_ids, attention_mask, token_type_ids) ==
  IF IsErr(input_ids) THEN input_ids
  ELSE Tensor(<<input_ids.shape[1], EncDim>>,
              MatOf(Len(input_ids.data), Cells(EncDim),
                    LAMBDA r, c : EncCell(w, input_ids.data[r], attention_mask.data[r], c)),
              <<"l1">>)

\* ------------------------------------------------------------------- data
\* The tables of the notebook.  Their contents come from pickles outside the
\* repository: a cell of a column is a function of the table, the contents
\* seed, the column and the row index.
Tables == {"train_data", "new_df_test"}
TableNo(tab) == IF tab = "train_data" THEN 1 ELSE 2

AuxFields == <<"gcn_bert_base", "char_density", "char_number", "visual_feature",
               "parsing1", "parsing2", "pos_emb", "visual">>
AuxSet == {AuxFields[k] : k \in 1..Len(AuxFields)}
FieldNo(f) == CHOOSE k \in 1..Len(AuxFields) : AuxFields[k] = f

\* The width of each column's vectors: what the layers that read them are
\* built for (visual feeds hidden1, the others are one side of a 768-wide pair).
FieldWidth(f) == IF f = "visual" THEN hidden1.in ELSE h1.in

ColumnRow(tab, sd, f, index, width) ==
  RowOf(Cells(width),
        LAMBDA c : ((sd * 7 + TableNo(tab) + FieldNo(f) * 3 + index * (c + 1) + c * c) % 5) - 2)

LabelOf(tab, sd, index) == (sd + TableNo(tab) + index * 3 + (index \div 3)) % NumClasses

\* The number of word pieces of a row's text: 0..3 under the seeds below 4,
\* around the limit (MAX_LEN - 3 .. MAX_LEN) under 4..7, about twice the limit
\* under 8..11.
TextLen(tab, sd, index) ==
  ((sd + TableNo(tab) + 2 * index) % 4) + (sd \div 4) * (MAX_LEN - 3)

TextOf(tab, sd, index) ==
  [k \in 1..TextLen(tab, sd, index) |-> 1 + ((sd + index + k) % 3)]

\* tokenizer.encode_plus(text, None, add_special_tokens=True, max_length,
\* pad_to_max_length=True, return_token_type_ids=True) for a single text:
\* truncate to leave room for the two special tokens, add them, pad.
Special == [cls |-> 101, sep |-> 102, pad |-> 0]

Pads(n, v) == [k \in 1..Max2(n, 0) |-> v]

\* A variant of the truncation step that keeps every token (the
\* do_not_truncate strategy).
TruncateNone(tokens, max_len) == tokens

\* The longest_first strategy on a single sequence: the tokens beyond
\* max_len less the special tokens are removed from the end.
Truncate(tokens, max_len) ==
  IF Len(tokens) + 2 > max_len THEN SubSeq(tokens, 1, max_len - 2) ELSE tokens

EncodePlus(text, max_len) ==
  LET kept == Truncate(text, max_len)
      with_special == <<Special.cls>> \o kept \o <<Special.sep>>
      difference == max_len - Len(with_special)
  IN [input_ids |-> Tup(with_special \o Pads(difference, Special.pad)),
      attention_mask |-> Tup(Pads(Len(with_special), 1) \o Pads(difference, 0)),
      token_type_ids |-> Tup(Pads(Len(with_special), 0) \o Pads(difference, 0))]

\* The keys of the dict __getitem__ returns, per dataset class.
TokenKeys == {"ids", "mask", "token_type_ids"}
SentimentDataKeys == TokenKeys \cup {"targets"} \cup AuxSet
SentimentData_testKeys == TokenKeys \cup AuxSet

\* The three dataset objects: class and table.
Datasets == {"training_set", "test_set", "test"}
ClassOf(ds) == IF ds = "test" THEN "SentimentData_test" ELSE "SentimentData"
TableOf(ds) == IF ds = "training_set" THEN "train_data" ELSE "new_df_test"
KeysOfClass(class) ==
  IF class = "SentimentData" THEN SentimentDataKeys ELSE SentimentData_testKeys
KeysOf(ds) == KeysOfClass(ClassOf(ds))

\* The columns new_df and new_df_test are made of, and the column each key of
\* an item is read from (the attributes __init__ binds).
Columns == {"text", "label", "near_visual_feature", "gcn_near_char_density",
            "gcn_near_char_number", "gcn_parsing1", "gcn_parsing2", "gcn_bert_base",
            "gcn_pos_emb", "visual_embedding", "gcn_bert_large"}

ColumnOf(k) ==
  CASE k = "targets" -> "label"
    [] k = "gcn_bert_base" -> "gcn_bert_base"
    [] k = "char_density" -> "gcn_near_char_density"
    [] k = "char_number" -> "gcn_near_char_number"
    [] k = "visual_feature" -> "near_visual_feature"
    [] k = "parsing1" -> "gcn_parsing1"
    [] k = "parsing2" -> "gcn_parsing2"
    [] k = "pos_emb" -> "gcn_pos_emb"
    [] k = "visual" -> "visual_embedding"

\* A cell of a table: a value with its shape, or the NaN pandas puts where an
\* assigned column has no row for an index label.
Value(shape, v) == [present |-> TRUE, shape |-> shape, v |-> v]
NaN == [present |-> FALSE, shape |-> <<>>, v |-> <<"nan">>]

\* The row of a table under the index label index (new_df is made from df_train, which line 232
\* gives test_visual's column; new_df_test likewise with train_visual's).
Row(tab, sd, index) ==
  [c \in Columns |->
     IF c = "text" THEN Value(<<TextLen(tab, sd, index)>>, TextOf(tab, sd, index))
     ELSE IF c = "label" THEN Value(<<>>, LabelOf(tab, sd, index))
     ELSE IF c = "gcn_bert_large"
       THEN Value(<<h1.in>>, ColumnRow(tab, sd + 1, "gcn_bert_base", index, h1.in))
     ELSE LET k == CHOOSE f \in AuxSet : ColumnOf(f) = c
          IN Value(<<FieldWidth(k)>>, ColumnRow(tab, sd, k, index, FieldWidth(k)))]

\* torch.tensor(x, dtype=...): the shape is that of x; NaN gives a 0-d tensor.
TorchTensor(cell, k) == Tensor(cell.shape, cell.v, <<k>>)

\* The dict __getitem__ builds from the cells its lookups returned (cells: one
\* per column): one 1-D tensor per key (targets is a scalar).
ItemOfCells(class, cells) ==
  LET inputs == EncodePlus(cells["text"].v, MAX_LEN)
  IN [k \in KeysOfClass(class) |->
        IF k = "ids" THEN Tensor(<<Len(inputs.input_ids)>>, inputs.input_ids, <<k>>)
        ELSE IF k = "mask"
          THEN Tensor(<<Len(inputs.attention_mask)>>, inputs.attention_mask, <<k>>)
        ELSE IF k = "token_type_ids"
          THEN Tensor(<<Len(inputs.token_type_ids)>>, inputs.token_type_ids, <<k>>)
        ELSE TorchTensor(cells[ColumnOf(k)], k)]

\* __getitem__(index) on a table whose row index holds the cells of Row.
GetItem(ds, sd, index) == ItemOfCells(ClassOf(ds), Row(TableOf(ds), sd, index))

\* torch.stack of the items' tensors under one key: all of one shape, or
\* RuntimeError.
Stack(items, k) ==
  IF \A r \in 1..Len(items) : items[r][k].shape = items[1][k].shape
    THEN Tensor(<<Len(items)>> \o items[1][k].shape,
                Tup([r \in 1..Len(items) |-> items[r][k].data]),
                <<k>>)
  ELSE Raise("RuntimeError")

\* DataLoader's default collate: stacks the items of a batch key by key.
CollateItems(keys, items) == [k \in keys |-> Stack(items, k)]

Collate(ds, sd, idxs) ==
  CollateItems(KeysOf(ds), Tup([r \in 1..Len(idxs) |-> GetItem(ds, sd, idxs[r])]))

\* The arguments of model(ids, mask, token_type_ids, visual_feature, ...),
\* taken from a batch dict; gcn names the key read into gcn_bert_base.
Args(data, gcn) ==
  [input_ids |-> data["ids"], attention_mask |-> data["mask"],
   token_type_ids |-> data["token_type_ids"],
   visual_feature |-> data["visual_feature"], char_density |-> data["char_density"],
   char_number |-> data["char_number"], parsing1 |-> data["parsing1"],
   parsing2 |-> data["parsing2"], gcn_bert_base |-> data[gcn],
   pos_emb |-> data["pos_emb"], visual |-> data["visual"]]

\* ------------------------------------------------------ RobertaClass.forward
\* One fusion step: stack the pair on a new dimension 1, max-pool over it,
\* squeeze it away.
Fuse(a, b) == Squeeze1(Pooling(Cat3(Unsqueeze1(a), Unsqueeze1(b))))

\* The first exception among the statements, in program order; "" if none.
RECURSIVE FirstErr(_)
FirstErr(ts) ==
  IF ts = <<>> THEN ""
  ELSE IF IsErr(ts[1]) THEN ts[1].err ELSE FirstErr(Tail(ts))

\* forward, statement by statement, in two parts.  b holds the eleven
\* arguments; rng is the state of the dropout generator at the call.
\* Branches: the statements up to the concatenation, as the values of their
\* local variables (pool1..pool4 stand for the pooled, squeezed pairs).
Branches(w, training, rng, b) ==
  LET enc == L1(w, b.input_ids, b.attention_mask, b.token_type_ids)
      pooler0 == Dropout(training, rng, 1, Tanh(Linear(pre_classifier, w, enc)))
      pool1 == Fuse(pooler0, b.gcn_bert_base)
      pool2 == Fuse(b.parsing1, b.parsing2)
      pool3 == Fuse(b.char_density, b.char_number)
      visual0 == Dropout(training, rng, 5, Tanh(Linear(hidden1, w, b.visual)))
      pool4 == Fuse(visual0, b.visual_feature)
  IN [enc |-> enc, pooler0 |-> pooler0, pool1 |-> pool1, pool2 |-> pool2,
      pool3 |-> pool3, visual0 |-> visual0, pool4 |-> pool4,
      pooler |-> Dropout(training, rng, 2, Tanh(Linear(h1, w, pool1))),
      parsing |-> Dropout(training, rng, 3, Tanh(Linear(h2, w, pool2))),
      density |-> Dropout(training, rng, 4, Tanh(Linear(h3, w, pool3))),
      visual |-> Dropout(training, rng, 6, Tanh(Linear(h4, w, pool4)))]

\* A variant of the concatenation that takes the fused char_density /
\* char_number branch (density) where forward names char_density.
ClassifyDensity(w, training, rng, b, f) ==
  LET parts == <<f.pooler, f.visual, f.parsing, f.density>>
      concat == Cat2(parts)
      pooler2 == Dropout(training, rng, 7, Tanh(Linear(hidden3, w, concat)))
      pooler3 == Dropout(training, rng, 8, Tanh(Linear(hidden2, w, pooler2)))
      logits == Linear(classifier, w, pooler3)
      e == FirstErr(<<f.pooler, f.parsing, f.density, f.visual0, f.visual, logits>>)
  IN [pairs |-> << <<f.pooler0, b.gcn_bert_base, f.pool1>>,
                   <<b.parsing1, b.parsing2, f.pool2>>,
                   <<b.char_density, b.char_number, f.pool3>>,
                   <<f.visual0, b.visual_feature, f.pool4>> >>,
      density |-> f.density,
      parts |-> parts,
      concat |-> concat,
      linear_in |-> << <<pre_classifier, f.enc>>, <<h1, f.pool1>>, <<h2, f.pool2>>,
                       <<h3, f.pool3>>, <<hidden1, b.visual>>, <<h4, f.pool4>>,
                       <<hidden3, concat>>, <<hidden2, pooler2>>,
                       <<classifier, pooler3>> >>,
      output |-> IF e = "" THEN logits ELSE Raise(e)]

\* Classify: the concatenation and the layers after it, given the branches f.  The
\* record keeps the fused pairs, the tensors concatenated, the input of every
\* Linear layer applied, and output: the value returned, or the first
\* exception in program order.
Classify(w, training, rng, b, f) ==
  LET parts == <<f.pooler, f.visual, f.parsing, b.char_density>>
      concat == Cat2(parts)
      pooler2 == Dropout(training, rng, 7, Tanh(Linear(hidden3, w, concat)))
      pooler3 == Dropout(training, rng, 8, Tanh(Linear(hidden2, w, pooler2)))
      logits == Linear(classifier, w, pooler3)
      e == FirstErr(<<f.pooler, f.parsing, f.density, f.visual0, f.visual, logits>>)
  IN [pairs |-> << <<f.pooler0, b.gcn_bert_base, f.pool1>>,
                   <<b.parsing1, b.parsing2, f.pool2>>,
                   <<b.char_density, b.char_number, f.pool3>>,
                   <<f.visual0, b.visual_feature, f.pool4>> >>,
      density |-> f.density,
      parts |-> parts,
      concat |-> concat,
      linear_in |-> << <<pre_classifier, f.enc>>, <<h1, f.pool1>>, <<h2, f.pool2>>,
                       <<h3, f.pool3>>, <<hidden1, b.visual>>, <<h4, f.pool4>>,
                       <<hidden3, concat>>, <<hidden2, pooler2>>,
                       <<classifier, pooler3>> >>,
      output |-> IF e = "" THEN logits ELSE Raise(e)]

ForwardTrace(w, training, rng, b) ==
  Classify(w, training, rng, b, Branches(w, training, rng, b))

\* A variant of forward that squeezes its result, as valid and
\* test_label_generator do with it.
ForwardSqueezed(w, training, rng, b) == SqueezeAll(ForwardTrace(w, training, rng, b).output)

Forward(w, training, rng, b) == ForwardTrace(w, training, rng, b).output

\* ------------------------------------------------------- loop ingredients
\* The index of the first maximal cell of a row, as a class id 0..n-1.
ArgMax(row) ==
  CHOOSE j \in 0..(Len(row) - 1) :
    /\ \A k \in 1..Len(row) : row[j + 1] >= row[k]
    /\ \A k \in 1..j : row[k] < row[j + 1]

\* big_val, big_idx = torch.max(x, dim=1): the indices; dimension 1 must exist.
MaxDim1(t) ==
  IF IsErr(t) THEN t
  ELSE IF Len(t.shape) >= 2
    THEN Tensor(<<t.shape[1]>>, Tup([r \in 1..Len(t.data) |-> ArgMax(t.data[r])]),
                <<"max">>)
  ELSE Raise("IndexError")

\* A variant of the example count that adds one per batch.
size0_one(t) == 1

\* targets.size(0): the number of examples in the batch.
size0(t) == t.shape[1]

\* calcuate_accuracy(preds, targets): (preds==targets).sum().item(), for two
\* label arrays of one length.
RECURSIVE SumTrue(_, _, _)
SumTrue(preds, targets, n) ==
  IF n = 0 THEN 0
  ELSE (IF preds[n] = targets[n] THEN 1 ELSE 0) + SumTrue(preds, targets, n - 1)

\* A variant that returns the share of equal positions, in percent.
accuracy_percent(preds, targets) ==
  IF Len(preds) = 0 THEN 0 ELSE (100 * SumTrue(preds, targets, Len(preds))) \div Len(preds)

calcuate_accuracy(preds, targets) == SumTrue(preds, targets, Len(preds))

\* loss_function(outputs, targets): CrossEntropyLoss wants (B, C) scores and B
\* targets.  Its value is quantised to the summed margin by which each row's
\* best score beats the target's score (0 when every target scores best).
RECURSIVE Margins(_, _, _)
Margins(rows, targets, n) ==
  IF n = 0 THEN 0
  ELSE (rows[n][ArgMax(rows[n]) + 1] - rows[n][targets[n] + 1])
       + Margins(rows, targets, n - 1)

loss_function(outputs, targets) ==
  IF IsErr(outputs) THEN outputs
  ELSE IF Len(outputs.shape) = 2 /\ Len(targets.shape) = 1
          /\ outputs.shape[1] = targets.shape[1]
    THEN Tensor(<<>>, Margins(outputs.data, targets.data, Len(targets.data)), <<"loss">>)
  ELSE Raise("DimError")

\* The loaders: dataset, batch size, shuffle.
training_loader == [dataset |-> "training_set", batch_size |-> TRAIN_BATCH_SIZE,
                    shuffle |-> TRUE]
vali_loader == [dataset |-> "test_set", batch_size |-> VALID_BATCH_SIZE, shuffle |-> FALSE]
testing_loader == [dataset |-> "test", batch_size |-> VALID_BATCH_SIZE, shuffle |-> FALSE]

\* The p-th index a sampler over n rows yields: in order, or (shuffled) in
\* the order drawn, here a rotation by sh.
SampleAt(n, sh, p) == ((p - 1 + sh) % n) + 1

\* The indices of batch k (from 0) of a loader over n rows.
BatchIdxs(loader, n, sh, k) ==
  LET lo == k * loader.batch_size
      hi == Min2(n, lo + loader.batch_size)
  IN Tup([q \in 1..(hi - lo) |-> SampleAt(n, IF loader.shuffle THEN sh ELSE 0, lo + q)])

\* A variant of the loader that drops an incomplete last batch (drop_last=True).
HasFullBatch(loader, n, k) == (k + 1) * loader.batch_size <= n

HasBatch(loader, n, k) == k * loader.batch_size < n

\* The keys of the batch dict each loop reads, and the key it passes as
\* gcn_bert_base.
\* A variant of valid's reads that names the key the other loops name.
ValidReadsBase == TokenKeys \cup {"targets"} \cup AuxSet

TrainReads == TokenKeys \cup {"targets"} \cup AuxSet
ValidReads == TokenKeys \cup {"targets", "char_density", "char_number", "visual_feature",
                              "gcn_bert_large", "parsing1", "parsing2", "pos_emb", "visual"}
TestReads == TokenKeys \cup AuxSet

\* -------------------------------------------------------------------- state
VARIABLES
  training,   \* model.training: TRUE after model.train(), FALSE after model.eval()
  weights,    \* the version of the trainable weights: optimizer steps applied
  input,      \* the batch a direct forward call is given
  fwd,        \* the last forward call (of the running or last function, if one
              \* ran): caller, input, mode, weights, output
  fwd2,       \* the direct forward call made before the last one
  trainN,     \* len(train_data)
  testN,      \* len(new_df_test)
  seed,       \* selects the contents of the tables
  fn,         \* the function running, or the last that ran: "train", "valid",
              \* "test_label_generator" ("" before the first call)
  pc,         \* "idle": none running; "loop": at the head of fn's loop;
              \* "step": in train's loop body, before optimizer.zero_grad()
  bi,         \* batches the running loop has taken from its loader
  shift,      \* the order the training sampler drew for this epoch
  n_correct, nb_tr_steps, nb_tr_examples, tr_loss, output_list,  \* the locals
  raised,     \* the exception that ended the last call, "" if it returned
  retval,     \* what the last call returned
  w0,         \* the weights when the running (or last) call was entered
  nTrain,     \* calls of train so far
  prevFn,     \* the function that ran before fn
  acc_preds, acc_targets, acc,  \* calcuate_accuracy called on its own: arguments, result
  model_test, \* the object torch.load returned: loaded or not, and its weights
  report,     \* the outcome of the cells that print the predictions and the
              \* classification report ("" before they run)
  frames,     \* the data frames of the cells that build the tables, by name:
              \* index labels and rows (<<>> where the loops stand alone)
  dstep,      \* the next of those cells ("" where the loops stand alone)
  got,        \* the last __getitem__ call, or first batch drawn, on those frames
  nli,        \* the globals of the MultiNLI notebook (<<>> outside it)
  ncell       \* the next code cell of the MultiNLI notebook ("" outside it)

modelVars == <<training, weights>>
callVars == <<fwd, fwd2>>
bookVars == <<model_test, report>>
tableVars == <<frames, dstep, got>>
nliVars == <<nli, ncell>>
dataVars == <<trainN, testN, seed, bookVars, tableVars, nliVars>>
loopVars == <<fn, pc, bi, shift, n_correct, nb_tr_steps, nb_tr_examples, tr_loss,
              output_list, raised, retval, w0, nTrain, prevFn>>
accVars == <<acc_preds, acc_targets, acc>>
vars == <<training, weights, input, fwd, fwd2, trainN, testN, seed, fn, pc, bi, shift,
          n_correct, nb_tr_steps, nb_tr_examples, tr_loss, output_list, raised, retval,
          w0, nTrain, prevFn, acc_preds, acc_targets, acc, model_test, report,
          frames, dstep, got, nli, ncell>>

NoCall == [caller |-> "", input |-> <<>>, training |-> FALSE, w |-> 0, rng |-> 0,
           out |-> Raise("")]
CallRec(caller, inp, tr, w, r, out) ==
  [caller |-> caller, input |-> inp, training |-> tr, w |-> w, rng |-> r, out |-> out]

\* A variant of train() / eval() that leaves the mode as it finds it.
SetModeKeep(flag) == training' = training

\* torch.nn.Module.train() / eval(): set the mode flag, nothing else.
SetMode(flag) == training' = flag

\* ------------------------------------------ forward called on its own
\* The batch a direct call passes: rows 1..B of the test table, with the
\* fields named in bad (at most two) given one more row ("rows") or another
\* width ("width": h1's for visual, hidden2's output width for the rest).
AltWidth(f) == IF f = "visual" THEN h1.in ELSE hidden2.out

Seq1(n) == [k \in 1..n |-> k]

MisShaped(f, kind, B) ==
  IF kind = "rows" THEN Collate("test", seed, Seq1(B + 1))[f]
  ELSE Tensor(<<B, AltWidth(f)>>,
              Tup([r \in 1..B |-> ColumnRow("new_df_test", seed, f, r, AltWidth(f))]),
              <<f>>)

\* One field alone, or both members of a fused pair of inputs.
BadSets == {{f} : f \in AuxSet}
           \cup {{"parsing1", "parsing2"}, {"char_density", "char_number"}}

Inputs == {[B |-> B, kind |-> kind, bad |-> bad] :
             B \in 1..MaxB, kind \in {"rows", "width"}, bad \in BadSets}
          \cup {[B |-> B, kind |-> "none", bad |-> {}] : B \in 1..MaxB}

DirectArgs(in) ==
  LET good == Args(Collate("test", seed, Seq1(in.B)), "gcn_bert_base")
  IN [k \in DOMAIN good |->
        IF k \in in.bad THEN MisShaped(k, in.kind, in.B) ELSE good[k]]

\* The state in which no loop is running and none has run.
NoLoop ==
  /\ fn = "" /\ pc = "idle" /\ bi = 0 /\ shift = 0
  /\ n_correct = 0 /\ nb_tr_steps = 0 /\ nb_tr_examples = 0 /\ tr_loss = 0
  /\ output_list = <<>> /\ raised = "" /\ retval = <<>>
  /\ w0 = weights /\ nTrain = 0 /\ prevFn = ""

\* calcuate_accuracy has not been called on its own.
NoAcc == acc_preds = <<>> /\ acc_targets = <<>> /\ acc = -1

\* The cells after the training cell have not been run.
NotLoaded == [loaded |-> FALSE, w |-> 0]
NoBook == model_test = NotLoaded /\ report = ""

\* The cells that build the tables are not followed one by one.
NoGot == [op |-> "", ds |-> "", idxs |-> <<>>, item |-> <<>>, raised |-> "",
          out |-> Raise("")]
NoTables == frames = <<>> /\ dstep = "" /\ got = NoGot

\* The MultiNLI notebook is not run.
NoNLI == nli = <<>> /\ ncell = ""

InitFwd ==
  /\ training = TRUE
  /\ weights \in 0..MaxW
  /\ input \in Inputs
  /\ fwd = NoCall
  /\ fwd2 = NoCall
  /\ trainN = 1 /\ testN = 1 /\ seed = 0
  /\ NoLoop
  /\ NoAcc
  /\ NoBook
  /\ NoTables
  /\ NoNLI

ModelTrain ==
  /\ SetMode(TRUE)
  /\ UNCHANGED <<weights, input, fwd, fwd2, dataVars, loopVars, accVars>>

ModelEval ==
  /\ SetMode(FALSE)
  /\ UNCHANGED <<weights, input, fwd, fwd2, dataVars, loopVars, accVars>>

\* model(...) on the input; r is the state the dropout generator is in (it is
\* consulted in training mode only).
ForwardCall ==
  \E r \in 1..MaxDrop :
    /\ fwd' = CallRec("direct", input, training, weights, IF training THEN r ELSE 0,
                      Forward(weights, training, r, DirectArgs(input)))
    /\ fwd2' = fwd
    /\ UNCHANGED <<training, weights, input, dataVars, loopVars, accVars>>

NextFwd == ModelTrain \/ ModelEval \/ ForwardCall

SpecFwd == InitFwd /\ [][NextFwd]_vars

\* ---------------------------------------- calcuate_accuracy called on its own
Labels == 0..(NumClasses - 1)
LabelArrays(n) == [1..n -> Labels]

InitAcc ==
  /\ training = TRUE /\ weights = 0
  /\ input = [B |-> 0, kind |-> "none", bad |-> {}]
  /\ fwd = NoCall /\ fwd2 = NoCall
  /\ trainN = 1 /\ testN = 1 /\ seed = 0
  /\ NoLoop
  /\ NoBook
  /\ NoTables
  /\ NoNLI
  /\ \E n \in 0..MaxArr : acc_preds \in LabelArrays(n) /\ acc_targets \in LabelArrays(n)
  /\ acc = -1

AccCall ==
  /\ acc = -1
  /\ acc' = calcuate_accuracy(acc_preds, acc_targets)
  /\ UNCHANGED <<modelVars, input, callVars, dataVars, loopVars, acc_preds, acc_targets>>

NextAcc == AccCall

SpecAcc == InitAcc /\ [][NextAcc]_vars

\* ------------------------------------------------------- the notebook's loops
\* The sizes of the two tables: none (test only), one row, one full batch and
\* a row or two more, so that a last batch of one row and of several both occur.
TrainSizes == {1, TRAIN_BATCH_SIZE + 1}
TestSizes == {0, 1, VALID_BATCH_SIZE + 1, VALID_BATCH_SIZE + 2}

Init ==
  /\ training = TRUE
  /\ weights = 0
  /\ input = [B |-> 0, kind |-> "none", bad |-> {}]
  /\ fwd = NoCall
  /\ fwd2 = NoCall
  /\ trainN \in TrainSizes
  /\ testN \in TestSizes
  /\ seed = 0
  /\ NoLoop
  /\ NoAcc
  /\ NoBook
  /\ NoTables
  /\ NoNLI

\* The first statements of a function: its locals, and the mode it sets.
Enter(f, mode) ==
  /\ pc = "idle"
  /\ fn' = f /\ pc' = "loop" /\ bi' = 0
  /\ n_correct' = 0 /\ nb_tr_steps' = 0 /\ nb_tr_examples' = 0 /\ tr_loss' = 0
  /\ output_list' = <<>> /\ raised' = "" /\ retval' = <<>>
  /\ w0' = weights
  /\ fwd' = NoCall
  /\ prevFn' = fn
  /\ SetMode(mode)
  /\ UNCHANGED <<weights, input, fwd2, dataVars, accVars>>

\* Leaving the function, by return or by exception: its locals are gone.
Leave ==
  /\ pc' = "idle" /\ bi' = 0 /\ shift' = 0
  /\ n_correct' = 0 /\ nb_tr_steps' = 0 /\ nb_tr_examples' = 0 /\ tr_loss' = 0
  /\ output_list' = <<>>
  /\ UNCHANGED <<fn, w0, nTrain, prevFn>>

Throw(e) == Leave /\ raised' = e /\ UNCHANGED retval

Return(v) == Leave /\ retval' = v /\ UNCHANGED raised

\* A variant of the block in which an optimizer step is taken.
no_grad_step(w) == w + 1

\* with torch.no_grad(): no gradient is recorded and no optimizer step taken
\* in the block, so the weights leave it as they entered.
no_grad(w) == w

\* The states of the dropout generator a forward call may meet; in evaluation
\* mode Dropout never consults it, and one state stands for all.
Draws(mode) == IF mode THEN 1..MaxDrop ELSE {1}

\* train(epoch): the locals, model.train(), and the sampler's order.
TrainCall ==
  /\ nTrain < MaxTrain
  /\ Enter("train", TRUE)
  /\ nTrain' = nTrain + 1
  /\ \E sh \in 0..MaxShift : shift' = sh

\* train's loop body up to the counters: the fields, the forward pass, the
\* loss, the accuracy.
TrainForward ==
  /\ fn = "train" /\ pc = "loop"
  /\ HasBatch(training_loader, trainN, bi)
  /\ LET idxs == BatchIdxs(training_loader, trainN, shift, bi)
         data == Collate(training_loader.dataset, seed, idxs)
     IN IF ~(TrainReads \subseteq DOMAIN data)
          THEN Throw("KeyError") /\ UNCHANGED <<modelVars, input, callVars, dataVars, accVars>>
        ELSE \E r \in Draws(training) :
          LET outputs == Forward(weights, training, r, Args(data, "gcn_bert_base"))
              targets == data["targets"]
              loss == loss_function(outputs, targets)
              big_idx == MaxDim1(outputs)
          IN /\ fwd' = CallRec("train", idxs, training, weights,
                               IF training THEN r ELSE 0, outputs)
             /\ IF IsErr(loss)
                  THEN Throw(loss.err)
                ELSE /\ tr_loss' = tr_loss + loss.data
                     /\ n_correct' = n_correct + calcuate_accuracy(big_idx.data, targets.data)
                     /\ nb_tr_steps' = nb_tr_steps + 1
                     /\ nb_tr_examples' = nb_tr_examples + size0(targets)
                     /\ pc' = "step"
                     /\ UNCHANGED <<fn, bi, shift, output_list, raised, retval, w0, nTrain, prevFn>>
             /\ UNCHANGED <<modelVars, input, fwd2, dataVars, accVars>>

\* A variant of the loop's end in which optimizer.step() is left out.
TrainStepNoUpdate ==
  /\ fn = "train" /\ pc = "step"
  /\ pc' = "loop" /\ bi' = bi + 1
  /\ UNCHANGED <<modelVars, input, callVars, dataVars, accVars, fn, shift, n_correct,
                 nb_tr_steps, nb_tr_examples, tr_loss, output_list, raised, retval, w0,
                 nTrain, prevFn>>

\* optimizer.zero_grad(); loss.backward(); optimizer.step(): the weights move
\* to their next version.
TrainStep ==
  /\ fn = "train" /\ pc = "step"
  /\ weights' = weights + 1
  /\ pc' = "loop" /\ bi' = bi + 1
  /\ UNCHANGED <<training, input, callVars, dataVars, accVars, fn, shift, n_correct,
                 nb_tr_steps, nb_tr_examples, tr_loss, output_list, raised, retval, w0,
                 nTrain, prevFn>>

\* After the loop: the epoch's accuracy and loss are printed, train returns.
TrainReturn ==
  /\ fn = "train" /\ pc = "loop"
  /\ ~HasBatch(training_loader, trainN, bi)
  /\ IF nb_tr_examples = 0 \/ nb_tr_steps = 0
       THEN Throw("ZeroDivisionError")
     ELSE Return(<<>>)
  /\ UNCHANGED <<modelVars, input, callVars, dataVars, accVars>>

\* valid(model, vali_loader): the locals and model.eval().
ValidCall ==
  /\ Enter("valid", FALSE)
  /\ UNCHANGED <<shift, nTrain>>

\* valid's loop body (under no_grad): the fields, the forward pass squeezed,
\* the loss, the predictions, the counters.
ValidBatch ==
  /\ fn = "valid" /\ pc = "loop"
  /\ HasBatch(vali_loader, testN, bi)
  /\ LET idxs == BatchIdxs(vali_loader, testN, shift, bi)
         data == Collate(vali_loader.dataset, seed, idxs)
     IN IF ~(ValidReads \subseteq DOMAIN data)
          THEN Throw("KeyError") /\ UNCHANGED <<modelVars, input, callVars, dataVars, accVars>>
        ELSE \E r \in Draws(training) :
          LET raw == Forward(weights, training, r, Args(data, "gcn_bert_large"))
              outputs == SqueezeAll(raw)
              targets == data["targets"]
              loss == loss_function(outputs, targets)
              big_idx == MaxDim1(outputs)
          IN /\ fwd' = CallRec("valid", idxs, training, weights,
                               IF training THEN r ELSE 0, raw)
             /\ IF IsErr(loss) THEN Throw(loss.err)
                ELSE IF IsErr(big_idx) THEN Throw(big_idx.err)
                ELSE /\ tr_loss' = tr_loss + loss.data
                     /\ output_list' = output_list \o big_idx.data
                     /\ n_correct' = n_correct + calcuate_accuracy(big_idx.data, targets.data)
                     /\ nb_tr_steps' = nb_tr_steps + 1
                     /\ nb_tr_examples' = nb_tr_examples + size0(targets)
                     /\ bi' = bi + 1
                     /\ UNCHANGED <<fn, pc, shift, raised, retval, w0, nTrain, prevFn>>
             /\ weights' = no_grad(weights)
             /\ UNCHANGED <<training, input, fwd2, dataVars, accVars>>

\* After the loop: epoch_loss and epoch_accu are computed and returned.
ValidReturn ==
  /\ fn = "valid" /\ pc = "loop"
  /\ ~HasBatch(vali_loader, testN, bi)
  /\ IF nb_tr_steps = 0 \/ nb_tr_examples = 0
       THEN Throw("ZeroDivisionError")
     ELSE Return(<<(n_correct * 100) \div nb_tr_examples, output_list>>)
  /\ UNCHANGED <<modelVars, input, callVars, dataVars, accVars>>

\* test_label_generator(model, testing_loader): the locals and model.eval().
TestCall ==
  /\ Enter("test_label_generator", FALSE)
  /\ UNCHANGED <<shift, nTrain>>

\* Its loop body (under no_grad): the fields, the forward pass squeezed, the
\* predictions.
TestBatch ==
  /\ fn = "test_label_generator" /\ pc = "loop"
  /\ HasBatch(testing_loader, testN, bi)
  /\ LET idxs == BatchIdxs(testing_loader, testN, shift, bi)
         data == Collate(testing_loader.dataset, seed, idxs)
     IN IF ~(TestReads \subseteq DOMAIN data)
          THEN Throw("KeyError") /\ UNCHANGED <<modelVars, input, callVars, dataVars, accVars>>
        ELSE \E r \in Draws(training) :
          LET raw == Forward(weights, training, r, Args(data, "gcn_bert_base"))
              outputs == SqueezeAll(raw)
              big_idx == MaxDim1(outputs)
          IN /\ fwd' = CallRec("test_label_generator", idxs, training, weights,
                               IF training THEN r ELSE 0, raw)
             /\ IF IsErr(big_idx) THEN Throw(big_idx.err)
                ELSE /\ output_list' = output_list \o big_idx.data
                     /\ nb_tr_steps' = nb_tr_steps + 1
                     /\ bi' = bi + 1
                     /\ UNCHANGED <<fn, pc, shift, n_correct, nb_tr_examples, tr_loss,
                                    raised, retval, w0, nTrain, prevFn>>
             /\ weights' = no_grad(weights)
             /\ UNCHANGED <<training, input, fwd2, dataVars, accVars>>

TestReturn ==
  /\ fn = "test_label_generator" /\ pc = "loop"
  /\ ~HasBatch(testing_loader, testN, bi)
  /\ Return(output_list)
  /\ UNCHANGED <<modelVars, input, callVars, dataVars, accVars>>

Next ==
  \/ TrainCall \/ TrainForward \/ TrainStep \/ TrainReturn
  \/ ValidCall \/ ValidBatch \/ ValidReturn
  \/ TestCall \/ TestBatch \/ TestReturn

Spec == Init /\ [][Next]_vars

\* ------------------------------------------- the notebook's cells, in order
\* The cells that call the loops, top to bottom: the training cell
\* (for epoch in range(EPOCHS): train(epoch)), two cells calling valid, the
\* torch.load cell, the cell calling test_label_generator, and the cells that
\* print the predictions and the report.  An exception ends the cell it is
\* raised in; the cells below can still be run.
EPOCHS == 4

\* The cell run last (of those listed), read off the state.
Cell ==
  IF report # "" THEN "report"
  ELSE IF fn = "test_label_generator" THEN "test"
  ELSE IF model_test.loaded THEN "load"
  ELSE IF fn = "valid" /\ prevFn = "valid" THEN "valid2"
  ELSE IF fn = "valid" THEN "valid1"
  ELSE "train"

\* The argument of the running (or last) call train(epoch): the loop runs
\* epoch over range(EPOCHS), one call each.
EpochArg == nTrain - 1

\* The training cell's loop is over: range(EPOCHS) is used up, or a call raised.
TrainingCellDone == pc = "idle" /\ (nTrain = EPOCHS \/ raised # "")

\* for epoch in range(EPOCHS): train(epoch) -- the next call.
BookTrain ==
  /\ Cell = "train" /\ raised = "" /\ nTrain < EPOCHS
  /\ Enter("train", TRUE)
  /\ nTrain' = nTrain + 1
  /\ \E sh \in 0..MaxShift : shift' = sh

\* A variant in which the validation cells are run whenever no loop is running.
BookValidAnytime ==
  /\ Cell \in {"train", "valid1"}
  /\ ValidCall

\* acc,hidden_list = valid(model, vali_loader), in two cells.
BookValid ==
  /\ \/ Cell = "train" /\ TrainingCellDone
     \/ Cell = "valid1" /\ pc = "idle"
  /\ ValidCall

\* model_test = torch.load('funsd_od_bert_large_uncased.bin'): a model object
\* read from a file the notebook never writes; its weights are whatever the
\* file holds (the weights of model, or others).
BookLoad ==
  /\ Cell = "valid2" /\ pc = "idle"
  /\ \E w \in (0..MaxW) \cup {weights} : model_test' = [loaded |-> TRUE, w |-> w]
  /\ UNCHANGED <<modelVars, input, callVars, trainN, testN, seed, report, tableVars,
                 nliVars, loopVars, accVars>>

\* output = test_label_generator(model, testing_loader)
BookTest ==
  /\ Cell = "load" /\ pc = "idle"
  /\ TestCall

\* The cells that print output and the classification report: output is
\* unbound if test_label_generator raised; on empty lists the report's
\* outcome is the metrics library's.
BookReport ==
  /\ Cell = "test" /\ pc = "idle"
  /\ report' \in (IF raised # "" THEN {"NameError"}
                  ELSE IF Len(retval) = 0 THEN {"printed", "ValueError"}
                  ELSE {"printed"})
  /\ UNCHANGED <<modelVars, input, callVars, trainN, testN, seed, model_test, tableVars,
                 nliVars, loopVars, accVars>>

NextBook ==
  \/ BookTrain \/ TrainForward \/ TrainStep \/ TrainReturn
  \/ BookValid \/ ValidBatch \/ ValidReturn
  \/ BookLoad
  \/ BookTest \/ TestBatch \/ TestReturn
  \/ BookReport

SpecBook == Init /\ [][NextBook]_vars

\* ------------------------------------- the cells that build the tables
\* A data frame: the index labels and the rows, position by position.  Labels
\* count from 1 here, as the loaders' indices do.
Frame(index, rows) == [index |-> index, rows |-> rows]
RangeIndex(n) == Seq1(n)

\* The position of a label in an index, 0 if it is not there.
Loc(index, label) ==
  IF \E p \in 1..Len(index) : index[p] = label
    THEN CHOOSE p \in 1..Len(index) : index[p] = label
  ELSE 0

\* pd.read_pickle of a dataset table of n rows; hole names a column whose
\* cell in the first row is NaN ("" for none).
Pickled(tab, sd, n, hole) ==
  Frame(RangeIndex(n),
        Tup([p \in 1..n |->
               [c \in Columns \ {"visual_embedding"} |->
                  IF p = 1 /\ c = hole THEN NaN ELSE Row(tab, sd, p)[c]]]))

\* pd.read_pickle of a visual table of m rows: the one column of vectors,
\* those of the dataset table tab.
PickledVisual(tab, sd, m) ==
  Frame(RangeIndex(m),
        Tup([p \in 1..m |-> [c \in {"visual_embedding"} |-> Row(tab, sd, p)[c]]]))

\* df[col] = other[col]: aligned on the index labels, NaN where other has
\* no row for a label.
AssignColumn(df, col, other) ==
  Frame(df.index,
        Tup([p \in 1..Len(df.rows) |->
               [c \in (DOMAIN df.rows[p]) \cup {col} |->
                  IF c # col THEN df.rows[p][c]
                  ELSE LET q == Loc(other.index, df.index[p])
                       IN IF q = 0 THEN NaN ELSE other.rows[q][col]]]))

\* df[[columns]]
ProjectColumns(df, columns) ==
  Frame(df.index, Tup([p \in 1..Len(df.rows) |-> [c \in columns |-> df.rows[p][c]]]))

\* df.sample(frac=train_size, random_state=200): the positions drawn, without
\* replacement; which ones random_state=200 gives is the generator's matter.
train_size == 1

\* A variant of the draw with replacement (sample(..., replace=True)).
SampleLocsReplace(n, frac) == [1..(frac * n) -> 1..n]

SampleLocs(n, frac) ==
  {locs \in [1..(frac * n) -> 1..n] :
     \A p, q \in 1..(frac * n) : locs[p] = locs[q] => p = q}

\* df.take(locs): the rows at those positions, with their labels.
Take(df, locs) ==
  Frame(Tup([p \in 1..Len(locs) |-> df.index[locs[p]]]),
        Tup([p \in 1..Len(locs) |-> df.rows[locs[p]]]))

\* df.reset_index(drop=True)
ResetIndexDrop(df) == Frame(RangeIndex(Len(df.rows)), df.rows)

\* series[label] on the column col of df.
SeriesGet(df, col, label) == df.rows[Loc(df.index, label)][col]

\* __getitem__(index) on a dataset of the given class built on df: every
\* column is looked up by the label index.
FrameItem(class, df, index) ==
  ItemOfCells(class, [c \in Columns |-> SeriesGet(df, c, index)])

\* The columns that may hold a NaN in the first row of the dataset pickles,
\* and the seeds of the contents.
Holes == {"", "gcn_pos_emb", "gcn_parsing2"}
DataSeeds == {0, 4, 8}

\* The pickles as read: the dataset tables, and the visual tables, which
\* lack the last 0..MaxLack rows of the dataset table they go with.
InitData ==
  /\ training = TRUE
  /\ weights = 0
  /\ input = [B |-> 0, kind |-> "none", bad |-> {}]
  /\ fwd = NoCall
  /\ fwd2 = NoCall
  /\ trainN \in 1..MaxRows
  /\ testN \in 1..MaxRows
  /\ seed \in DataSeeds
  /\ NoLoop
  /\ NoAcc
  /\ NoBook
  /\ \E lack \in 0..MaxLack, hole \in Holes :
       frames = [df_train |-> Pickled("train_data", seed, trainN, hole),
                 df_test |-> Pickled("new_df_test", seed, testN, hole),
                 test_visual |-> PickledVisual("train_data", seed, Max2(trainN - lack, 0)),
                 train_visual |-> PickledVisual("new_df_test", seed, Max2(testN - lack, 0))]
  /\ dstep = "visual"
  /\ got = NoGot
  /\ NoNLI

DataStep(from, to) ==
  /\ dstep = from /\ dstep' = to
  /\ UNCHANGED <<modelVars, input, callVars, trainN, testN, seed, bookVars, got,
                 loopVars, accVars, nliVars>>

\* Set f to v in the record r, adding the field if it is not there.
With(r, f, v) == [k \in (DOMAIN r) \cup {f} |-> IF k = f THEN v ELSE r[k]]

\* df_train['visual_embedding'] = test_visual['visual_embedding'], and df_test
\* likewise from train_visual.
AssignVisual ==
  /\ DataStep("visual", "new_df")
  /\ LET one == With(frames, "df_train",
                     AssignColumn(frames.df_train, "visual_embedding", frames.test_visual))
     IN frames' = With(one, "df_test",
                       AssignColumn(frames.df_test, "visual_embedding", frames.train_visual))

ProjectTrain ==
  /\ DataStep("new_df", "new_df_test")
  /\ frames' = With(frames, "new_df", ProjectColumns(frames.df_train, Columns))

ProjectTest ==
  /\ DataStep("new_df_test", "sample")
  /\ frames' = With(frames, "new_df_test", ProjectColumns(frames.df_test, Columns))

SampleTrain ==
  /\ DataStep("sample", "reset_index")
  /\ \E locs \in SampleLocs(Len(frames.new_df.rows), train_size) :
       frames' = With(frames, "train_data", Take(frames.new_df, Tup(locs)))

ResetIndex ==
  /\ DataStep("reset_index", "ready")
  /\ frames' = With(frames, "train_data", ResetIndexDrop(frames.train_data))

\* The frame each dataset object is built on.
FrameOf(ds) == frames[TableOf(ds)]

\* dataset[index] for an index below len(dataset).  Neither this call nor the
\* drawing of a batch changes the tables, so a behaviour makes one of them.
GetItemCall ==
  /\ dstep = "ready" /\ got = NoGot
  /\ \E ds \in Datasets : \E index \in 1..Len(FrameOf(ds).rows) :
       got' = IF Loc(FrameOf(ds).index, index) = 0
                THEN [op |-> "getitem", ds |-> ds, idxs |-> <<index>>, item |-> <<>>,
                      raised |-> "KeyError", out |-> Raise("")]
              ELSE [op |-> "getitem", ds |-> ds, idxs |-> <<index>>,
                    item |-> FrameItem(ClassOf(ds), FrameOf(ds), index),
                    raised |-> "", out |-> Raise("")]
  /\ UNCHANGED <<modelVars, input, callVars, trainN, testN, seed, bookVars, frames, dstep,
                 loopVars, accVars, nliVars>>

\* The keys the loop over a loader reads from its batch.
ReadsOf(loader) ==
  IF loader = training_loader THEN TrainReads
  ELSE IF loader = vali_loader THEN ValidReads ELSE TestReads

\* The first batch of a loader and what the loop over that loader does with
\* it up to the model's result: the items, their collation, the reads of the
\* batch dict, model(...) in the mode the loop's function sets.
FirstBatch ==
  /\ dstep = "ready" /\ got = NoGot
  /\ \E loader \in {training_loader, vali_loader, testing_loader} :
     \E sh \in (IF loader.shuffle THEN 0..MaxShift ELSE {0}) :
     \E r \in Draws(loader = training_loader) :
       LET ds == loader.dataset
           df == FrameOf(ds)
           idxs == BatchIdxs(loader, Len(df.rows), sh, 0)
           items == Tup([q \in 1..Len(idxs) |-> FrameItem(ClassOf(ds), df, idxs[q])])
           data == CollateItems(KeysOf(ds), items)
           rec == [op |-> "batch", ds |-> ds, idxs |-> idxs, item |-> <<>>]
       IN /\ Len(df.rows) > 0
          /\ \A q \in 1..Len(idxs) : Loc(df.index, idxs[q]) # 0
          /\ got' = IF \E k \in DOMAIN data : IsErr(data[k])
                      THEN With(With(rec, "raised", "RuntimeError"), "out", Raise("RuntimeError"))
                    ELSE IF ~(ReadsOf(loader) \subseteq DOMAIN data)
                      THEN With(With(rec, "raised", "KeyError"), "out", Raise("KeyError"))
                    ELSE LET out == Forward(weights, loader = training_loader, r,
                                            Args(data, "gcn_bert_base"))
                         IN With(With(rec, "raised", out.err), "out", out)
  /\ UNCHANGED <<modelVars, input, callVars, trainN, testN, seed, bookVars, frames, dstep,
                 loopVars, accVars, nliVars>>

NextData ==
  \/ AssignVisual \/ ProjectTrain \/ ProjectTest \/ SampleTrain \/ ResetIndex
  \/ GetItemCall \/ FirstBatch

SpecData == InitData /\ [][NextData]_vars

\* ------------------- the MultiNLI notebook (entailment_multinli_transformers)
\* The notebook's globals are one record, nli, of the names bound so far;
\* ncell is the next code cell.  A fraction is held in thousandths, and a
\* table as its number of rows per gold_label (load_pandas_df and the data
\* are outside the repository: the tables are inputs).
PerMille == 1000
NLIClasses == {"contradiction", "entailment", "neutral"}
GoldLabels == NLIClasses \cup {"-"}

\* A variant of the filter that keeps every row.
LabelledAll(df) == df

\* A variant of the configuration cell without its if QUICK_RUN: block.
ConfigurationsFull(QUICK_RUN) ==
  [TRAIN_DATA_USED_FRACTION |-> 1 * PerMille, DEV_DATA_USED_FRACTION |-> 1 * PerMille,
   NUM_EPOCHS |-> 2, WARMUP_STEPS |-> 2500]

\* The four settings QUICK_RUN governs: assigned, then overwritten if it is set.
Configurations(QUICK_RUN) ==
  LET full == [TRAIN_DATA_USED_FRACTION |-> 1 * PerMille,
               DEV_DATA_USED_FRACTION |-> 1 * PerMille,
               NUM_EPOCHS |-> 2, WARMUP_STEPS |-> 2500]
  IN IF QUICK_RUN
       THEN [full EXCEPT !.TRAIN_DATA_USED_FRACTION = 1,
                         !.DEV_DATA_USED_FRACTION = 10,
                         !.NUM_EPOCHS = 1,
                         !.WARMUP_STEPS = 10]
     ELSE full

\* r with the fields of s added or replaced.
Update(r, s) == [k \in (DOMAIN r) \cup (DOMAIN s) |-> IF k \in DOMAIN s THEN s[k] ELSE r[k]]

RECURSIVE SumOver(_, _)
SumOver(f, keys) ==
  IF keys = {} THEN 0
  ELSE LET k == CHOOSE x \in keys : TRUE IN f[k] + SumOver(f, keys \ {k})

\* df.shape[0]
NRows(df) == SumOver(df, DOMAIN df)

\* round(x) of x = num / den: to the nearest integer, halves to the even one.
Round(num, den) ==
  LET q == num \div den
      r == num % den
  IN IF 2 * r < den THEN q
     ELSE IF 2 * r > den THEN q + 1
     ELSE IF q % 2 = 0 THEN q ELSE q + 1

\* df.sample(frac=...): round(frac * len(df)) rows drawn without replacement;
\* no random_state is given, so any such rows may be drawn.  Drawn(df, n, l):
\* the numbers of rows of label l a draw of n rows can hold.
Drawn(df, n, l) == Max2(0, n - (NRows(df) - df[l]))..Min2(df[l], n)

Sample(df, frac) ==
  LET n == Round(frac * NRows(df), PerMille)
      draws == {[l \in GoldLabels |->
                   IF l = "contradiction" THEN c
                   ELSE IF l = "entailment" THEN e
                   ELSE IF l = "neutral" THEN u ELSE d] :
                  c \in Drawn(df, n, "contradiction"), e \in Drawn(df, n, "entailment"),
                  u \in Drawn(df, n, "neutral"), d \in Drawn(df, n, "-")}
  IN {s \in draws : NRows(s) = n}

\* df.loc[df['gold_label'] != '-']
Labelled(df) == [l \in DOMAIN df |-> IF l = "-" THEN 0 ELSE df[l]]

\* LabelEncoder.fit_transform and np.unique: the distinct labels of the column.
Unique(df) == {l \in DOMAIN df : df[l] > 0}

\* The tables load_pandas_df may return: the training split with 1..MaxThousand
\* thousand rows of each class, each development split with a hundred labelled
\* rows and none or a hundred without a gold label.
TrainTables ==
  {t \in [GoldLabels -> {k * PerMille : k \in 0..MaxThousand}] :
     /\ t["-"] = 0
     /\ \A l \in NLIClasses : t[l] > 0}
DevTables ==
  {[l \in GoldLabels |-> IF l = "-" THEN u ELSE IF l = "neutral" THEN 40 ELSE 30] :
     u \in {0, 100}}

InitNLI ==
  /\ training = TRUE
  /\ weights = 0
  /\ input = [B |-> 0, kind |-> "none", bad |-> {}]
  /\ fwd = NoCall
  /\ fwd2 = NoCall
  /\ trainN = 1 /\ testN = 1 /\ seed = 0
  /\ NoLoop
  /\ NoAcc
  /\ NoBook
  /\ NoTables
  /\ \E q \in BOOLEAN : nli = [QUICK_RUN |-> q]
  /\ ncell = "Configurations"

NLIStep(from, to) ==
  /\ ncell = from /\ ncell' = to
  /\ UNCHANGED <<modelVars, input, callVars, trainN, testN, seed, bookVars, tableVars,
                 loopVars, accVars>>

\* A Python number: its type and its value num / den.
PyInt(n) == [type |-> "int", num |-> n, den |-> 1]

\* a / n (Python 3, the notebook's kernel): true division, a float whatever
\* the operands.
TrueDiv(a, n) == [type |-> "float", num |-> a.num, den |-> a.den * n]

\* a * n for an int n: the type of a is kept.
Times(a, n) == [a EXCEPT !.num = a.num * n]

\* The machines the notebook runs on: torch.cuda.device_count() GPUs, and
\* torch.cuda.is_available() when there is at least one.
Machines == 0..MaxGpus

\* The code cells are run in order; one that raises ends the run: raised
\* names the exception, the names bound before it stay bound.
NLIRaise(from, e, bound) ==
  /\ ncell = from /\ ncell' = "raised"
  /\ nli' = Update(Update(nli, bound), [raised |-> e])
  /\ UNCHANGED <<modelVars, input, callVars, trainN, testN, seed, bookVars, tableVars,
                 loopVars, accVars>>

\* The configuration cell; BATCH_SIZE is halved where no GPU is found.
Configure ==
  /\ NLIStep("Configurations", "load")
  /\ \E device_count \in Machines :
       nli' = Update(Update(nli, [device_count |-> device_count,
                                  MODEL_NAME |-> "bert-large-cased", TO_LOWER |-> FALSE,
                                  BATCH_SIZE |-> IF device_count > 0 THEN PyInt(16)
                                                 ELSE TrueDiv(PyInt(16), 2),
                                  RANDOM_SEED |-> 42, MAX_SEQ_LENGTH |-> 128,
                                  TEXT_COL_1 |-> "sentence1", TEXT_COL_2 |-> "sentence2",
                                  LABEL_COL |-> "gold_label",
                                  LABEL_COL_NUM |-> "gold_label_num"]),
                     Configurations(nli.QUICK_RUN))

LoadData ==
  /\ NLIStep("load", "filter")
  /\ \E t \in TrainTables, m \in DevTables, mm \in DevTables :
       nli' = Update(nli, [train_df |-> t, dev_df_matched |-> m, dev_df_mismatched |-> mm])

FilterDev ==
  /\ NLIStep("filter", "sample")
  /\ nli' = Update(nli, [dev_df_matched |-> Labelled(nli.dev_df_matched),
                         dev_df_mismatched |-> Labelled(nli.dev_df_mismatched)])

\* The three sample(frac=...).reset_index(drop=True) lines; sampled keeps the
\* frac each call was given.
SampleData ==
  /\ NLIStep("sample", "encode")
  /\ \E t \in Sample(nli.train_df, nli.TRAIN_DATA_USED_FRACTION),
        m \in Sample(nli.dev_df_matched, nli.DEV_DATA_USED_FRACTION),
        mm \in Sample(nli.dev_df_mismatched, nli.DEV_DATA_USED_FRACTION),
        sh \in 0..MaxShift, sh2 \in 0..MaxShift :
       nli' = Update(nli, [train_df |-> t, dev_df_matched |-> m, dev_df_mismatched |-> mm,
                           row_order |-> [dev_df_matched |-> sh, dev_df_mismatched |-> sh2],
                           sampled |-> [train_df |-> nli.TRAIN_DATA_USED_FRACTION,
                                        dev_df_matched |-> nli.DEV_DATA_USED_FRACTION,
                                        dev_df_mismatched |-> nli.DEV_DATA_USED_FRACTION]])

EncodeLabels ==
  /\ NLIStep("encode", "preprocess")
  /\ nli' = Update(nli, [label_encoder |-> Unique(nli.train_df),
                         num_labels |-> Cardinality(Unique(nli.train_df))])

\* torch.utils.data.DataLoader(ds, sampler=..., batch_size=...): the batch
\* sampler accepts a positive int only.
DataLoader(ds, batch_size, shuffle) ==
  IF batch_size.type = "int" /\ batch_size.num > 0
    THEN [err |-> "", dataset |-> ds, batch_size |-> batch_size.num, shuffle |-> shuffle]
  ELSE [err |-> "ValueError", dataset |-> ds, batch_size |-> 0, shuffle |-> shuffle]

\* dataloader_from_dataset(ds, batch_size, shuffle): the batch size is scaled
\* by the number of GPUs; a random sampler if shuffle, else a sequential one.
dataloader_from_dataset(ds, batch_size, num_gpus, shuffle) ==
  DataLoader(ds, Times(batch_size, Max2(1, num_gpus)), shuffle)

\* The rows of a table in the order it holds them: row <<l, k>> is the k-th
\* row of gold_label l, and the order is the tables' own order turned by sh
\* (sample leaves the rows in the order drawn, reset_index numbers them so).
LabelOrder == <<"-", "contradiction", "entailment", "neutral">>

RECURSIVE RowsFrom(_, _)
RowsFrom(df, j) ==
  IF j > Len(LabelOrder) THEN <<>>
  ELSE [k \in 1..df[LabelOrder[j]] |-> <<LabelOrder[j], k>>] \o RowsFrom(df, j + 1)

RowsOf(df, sh) ==
  LET rows == RowsFrom(df, 1)
      n == Len(rows)
  IN Tup([p \in 1..n |-> rows[SampleAt(n, sh, p)]])

\* processor.dataset_from_dataframe(df, ...): a dataset of one example per
\* row of the table as it is at the call, in the order of the table.
dataset_from_dataframe(df, sh) == [df |-> df, row_order |-> sh]

\* The examples of a dataset, in its order.
Examples(ds) == RowsOf(ds.df, ds.row_order)

\* The processor, the three datasets, the three loaders.
Preprocess ==
  /\ ncell = "preprocess"
  /\ LET train_dataset == dataset_from_dataframe(nli.train_df, 0)
         dev_dataset_matched ==
           dataset_from_dataframe(nli.dev_df_matched, nli.row_order.dev_df_matched)
         dev_dataset_mismatched ==
           dataset_from_dataframe(nli.dev_df_mismatched, nli.row_order.dev_df_mismatched)
         train_dataloader ==
           dataloader_from_dataset(train_dataset, nli.BATCH_SIZE, nli.device_count, TRUE)
         dev_dataloader_matched ==
           dataloader_from_dataset(dev_dataset_matched, nli.BATCH_SIZE, nli.device_count, FALSE)
         dev_dataloader_mismatched ==
           dataloader_from_dataset(dev_dataset_mismatched, nli.BATCH_SIZE, nli.device_count,
                                   FALSE)
         datasets == [train_dataset |-> train_dataset,
                      dev_dataset_matched |-> dev_dataset_matched,
                      dev_dataset_mismatched |-> dev_dataset_mismatched]
     IN IF train_dataloader.err # ""
          THEN NLIRaise("preprocess", train_dataloader.err, datasets)
        ELSE /\ NLIStep("preprocess", "classifier")
             /\ nli' = Update(Update(nli, datasets),
                              [train_dataloader |-> train_dataloader,
                               dev_dataloader_matched |-> dev_dataloader_matched,
                               dev_dataloader_mismatched |-> dev_dataloader_mismatched])

CreateClassifier ==
  /\ NLIStep("classifier", "fit")
  /\ nli' = Update(nli, [classifier |-> [model_name |-> nli.MODEL_NAME,
                                         num_labels |-> nli.num_labels,
                                         fit |-> <<>>]])

\* classifier.fit(train_dataloader, num_epochs, learning_rate, warmup_steps);
\* fit keeps the arguments of the call.
Fit ==
  /\ NLIStep("fit", "predict")
  /\ nli' = Update(nli, [classifier |->
                           [nli.classifier EXCEPT !.fit =
                              [num_epochs |-> nli.NUM_EPOCHS,
                               warmup_steps |-> nli.WARMUP_STEPS]]])

\* The indices a loader's sampler yields over one pass: in order, or (random
\* sampler) in an order turned by sh.
SamplerOrder(loader, sh) ==
  LET n == NRows(loader.dataset.df)
  IN Tup([p \in 1..n |-> SampleAt(n, IF loader.shuffle THEN sh ELSE 0, p)])

\* The class id the fitted classifier gives an example.
PredictOne(clf, row) ==
  LET j == CHOOSE i \in 1..Len(LabelOrder) : LabelOrder[i] = row[1]
  IN (j * row[2] + clf.fit.num_epochs) % clf.num_labels

\* classifier.predict(dataloader): the arg-max class ids of the examples, batch
\* after batch in the order the loader yields them.  of keeps, beside each
\* value, the example it was computed from.
Predict(clf, loader, sh) ==
  LET order == SamplerOrder(loader, sh)
      examples == Examples(loader.dataset)
  IN [of |-> Tup([p \in 1..Len(order) |-> examples[order[p]]]),
      values |-> Tup([p \in 1..Len(order) |-> PredictOne(clf, examples[order[p]])])]

PredictMatched ==
  /\ NLIStep("predict", "predict_mismatched")
  /\ \E sh \in 0..MaxShift :
       nli' = Update(nli, [predictions_matched |->
                             Predict(nli.classifier, nli.dev_dataloader_matched, sh)])

PredictMismatched ==
  /\ NLIStep("predict_mismatched", "evaluate")
  /\ \E sh \in 0..MaxShift :
       nli' = Update(nli, [predictions_mismatched |->
                             Predict(nli.classifier, nli.dev_dataloader_mismatched, sh)])

\* label_encoder.classes_: the labels seen by fit, sorted.
Classes(label_encoder) == SelectSeq(LabelOrder, LAMBDA l : l \in label_encoder)

\* label_encoder.inverse_transform(ids): the class of each id.
inverse_transform(label_encoder, ids) ==
  IF \E p \in 1..Len(ids) : ids[p] + 1 > Len(Classes(label_encoder))
    THEN <<"ValueError">>
  ELSE Tup([p \in 1..Len(ids) |-> Classes(label_encoder)[ids[p] + 1]])

\* dev_df[LABEL_COL]: the gold labels in the order of the table.
LabelColumn(df, sh) ==
  LET rows == RowsOf(df, sh) IN Tup([p \in 1..Len(rows) |-> rows[p][1]])

\* classification_report(y_true, y_pred): the two columns compared position
\* by position; columns of unequal length are refused.
classification_report(y_true, y_pred) ==
  IF Len(y_true) # Len(y_pred) THEN [err |-> "ValueError", y_true |-> <<>>, y_pred |-> <<>>]
  ELSE [err |-> "", y_true |-> y_true, y_pred |-> y_pred]

\* An evaluation cell: the predictions are decoded in place and reported
\* against the gold labels of the table.
Evaluate(from, to, df, predictions, report_name) ==
  /\ ncell = from
  /\ LET decoded == inverse_transform(nli.label_encoder, nli[predictions].values)
         rep == classification_report(LabelColumn(nli[df], nli.row_order[df]), decoded)
         bound == [k \in {predictions} |-> [nli[predictions] EXCEPT !.values = decoded]]
     IN IF decoded = <<"ValueError">> THEN NLIRaise(from, "ValueError", <<>>)
        ELSE IF rep.err # "" THEN NLIRaise(from, rep.err, bound)
        ELSE /\ NLIStep(from, to)
             /\ nli' = Update(Update(nli, bound), [k \in {report_name} |-> rep])

EvaluateMatched ==
  /\ ncell = "evaluate"
  /\ Evaluate("evaluate", "evaluate_mismatched", "dev_df_matched", "predictions_matched",
              "report_matched")

EvaluateMismatched ==
  /\ ncell = "evaluate_mismatched"
  /\ Evaluate("evaluate_mismatched", "done", "dev_df_mismatched", "predictions_mismatched",
              "report_mismatched")

NextNLI ==
  \/ Configure \/ LoadData \/ FilterDev \/ SampleData \/ EncodeLabels \/ Preprocess
  \/ CreateClassifier \/ Fit \/ PredictMatched \/ PredictMismatched
  \/ EvaluateMatched \/ EvaluateMismatched

SpecNLI == InitNLI /\ [][NextNLI]_vars

\* ------------------------------------------------------------- properties
\* The forward pass behind the last direct call, statement by statement.
LastTrace == ForwardTrace(fwd.w, fwd.training, fwd.rng, DirectArgs(fwd.input))

Direct == fwd.caller = "direct"
DirectOk == Direct /\ ~IsErr(fwd.out)

\* The auxiliary vectors forward fuses or projects (pos_emb is the eighth field).
FusedFields == {"visual", "visual_feature", "parsing1", "parsing2", "char_density",
                "char_number", "gcn_bert_base"}

\* C1: for every batch size B >= 1, forward on a well-formed batch returns B
\* rows of NumClasses logits; whenever it returns at all, the result is B by
\* NumClasses, so the length of a logit vector does not depend on B.
C1_LogitsPerExample ==
  Direct =>
    /\ (fwd.input.kind = "none" => ~IsErr(fwd.out))
    /\ (~IsErr(fwd.out) =>
          /\ fwd.out.shape = <<fwd.input.B, NumClasses>>
          /\ Len(fwd.out.data) = fwd.input.B
          /\ \A r \in 1..fwd.input.B : Len(fwd.out.data[r]) = NumClasses)

C1_Witness ==
  DirectOk /\ fwd.input.kind = "none" /\ fwd.input.B = MaxB /\ Len(fwd.out.data) = MaxB

\* C2 as stated: for a batch of 2 in which every auxiliary vector, visual
\* included, is 768 wide, forward returns a (2,4) logit tensor.
C2_AllVectors768 ==
  (Direct /\ fwd.input.B = 2
     /\ \A f \in FusedFields : DirectArgs(fwd.input)[f].shape = <<2, 768>>)
  => (~IsErr(fwd.out) /\ fwd.out.shape = <<2, 4>>)

\* C2 amended: for a batch of 2 in which visual is 2048 wide (hidden1's
\* in_features) and every other auxiliary vector is 768 wide, forward returns a
\* (2,4) logit tensor and every Linear layer it applies receives an input of
\* the layer's in_features.
C2_DocumentedWidths ==
  (Direct /\ fwd.input.B = 2
     /\ DirectArgs(fwd.input).visual.shape = <<2, 2048>>
     /\ \A f \in FusedFields \ {"visual"} : DirectArgs(fwd.input)[f].shape = <<2, 768>>)
  => LET applied == LastTrace.linear_in
     IN /\ ~IsErr(fwd.out) /\ fwd.out.shape = <<2, 4>>
        /\ \A k \in 1..Len(applied) :
             LET layer == applied[k][1]
                 x == applied[k][2]
             IN ~IsErr(x) /\ Len(x.shape) = 2 /\ x.shape[2] = layer.in

C2_Witness ==
  /\ DirectOk /\ fwd.input.B = 2 /\ fwd.input.kind = "none"
  /\ DirectArgs(fwd.input).visual.shape = <<2, 2048>>
  /\ fwd.out.shape = <<2, 4>>

\* C3 as stated: whenever the fields of the batch disagree in shape (a field
\* with another batch size, or another width), forward ends with a
\* dimension-mismatch error and returns no logits.
C3_MismatchRaises ==
  (Direct /\ fwd.input.kind # "none") => fwd.out.err = "DimError"

\* C4: in evaluation mode, with the same weights, two forward calls on the
\* same batch return identical logits.
C4_EvalDeterministic ==
  (Direct /\ fwd2.caller = "direct" /\ ~fwd.training /\ ~fwd2.training
     /\ fwd.w = fwd2.w /\ fwd.input = fwd2.input)
  => fwd.out = fwd2.out

C4_Witness ==
  /\ DirectOk /\ fwd2.caller = "direct" /\ ~fwd.training /\ ~fwd2.training
  /\ fwd.w = fwd2.w /\ fwd.input = fwd2.input /\ fwd.out = fwd2.out
  /\ fwd.input.B = MaxB

\* C5: each fusion step of forward (stack, MaxPool2d((2,1)), squeeze), given
\* two tensors of one shape, yields their element-wise maximum, and yields
\* the same when the two are swapped.
C5_FusionIsMax ==
  Direct =>
    LET pairs == LastTrace.pairs
    IN \A k \in 1..Len(pairs) :
      LET a == pairs[k][1]
          b == pairs[k][2]
          pooled == pairs[k][3]
      IN (~IsErr(a) /\ ~IsErr(b) /\ a.shape = b.shape) =>
           /\ ~IsErr(pooled) /\ pooled.shape = a.shape
           /\ \A r \in 1..Len(a.data) : \A c \in 1..Len(a.data[r]) :
                pooled.data[r][c] = Max2(a.data[r][c], b.data[r][c])
           /\ Fuse(b, a).data = pooled.data

\* A fusion step whose result takes cells from both members of the pair.
C5_Witness ==
  /\ Direct
  /\ LET pairs == LastTrace.pairs
     IN \E k \in 1..Len(pairs) :
       LET a == pairs[k][1]
           b == pairs[k][2]
           pooled == pairs[k][3]
       IN /\ ~IsErr(pooled) /\ a.shape = b.shape
          /\ pooled.data # a.data /\ pooled.data # b.data
          /\ Fuse(b, a).data = pooled.data

\* C6: calcuate_accuracy returns the number of positions at which the two
\* arrays agree (a count); for [0,1,2,3] against [0,1,2,2] it returns 3.
C6_CountOfEqual ==
  acc # -1 =>
    /\ acc = Cardinality({i \in 1..Len(acc_preds) : acc_preds[i] = acc_targets[i]})
    /\ (acc_preds = <<0, 1, 2, 3>> /\ acc_targets = <<0, 1, 2, 2>> => acc = 3)

C6_Witness == acc_preds = <<0, 1, 2, 3>> /\ acc_targets = <<0, 1, 2, 2>> /\ acc = 3

\* C7: the weights change only at the optimizer step inside train; the
\* forward pass in train, and every step of valid and of
\* test_label_generator, leave them as they are.
C7_WeightsOnlyAtStep ==
  [][weights' # weights => (fn = "train" /\ pc = "step" /\ pc' = "loop")]_vars

\* test_label_generator has run to its return on trained weights, which are
\* the weights it was entered with.
C7_Witness ==
  /\ fn = "test_label_generator" /\ pc = "idle" /\ raised = "" /\ Len(retval) > 0
  /\ weights > 0 /\ weights = w0

\* C8: every forward pass issued by train runs in training mode and every one
\* issued by valid or test_label_generator in evaluation mode, whatever ran
\* before.
C8_ModePerCaller ==
  /\ fwd.caller = "train" => fwd.training
  /\ fwd.caller \in {"valid", "test_label_generator"} => ~fwd.training
  /\ (pc # "idle" /\ fn = "train") => training
  /\ (pc # "idle" /\ fn \in {"valid", "test_label_generator"}) => ~training

\* train called a second time, right after valid, has issued a forward pass.
C8_Witness ==
  /\ fn = "train" /\ prevFn = "valid" /\ nTrain = 2
  /\ fwd.caller = "train" /\ fwd.training

\* The class ids the last call returned (valid returns them second).
ReturnedIds == IF fn = "valid" THEN retval[2] ELSE retval

\* The arg-max class of example i's logits, the example taken on its own.
ClassOfExample(i) ==
  ArgMax(Forward(weights, FALSE, 1,
                 Args(Collate("test", seed, <<i>>), "gcn_bert_base")).data[1])

\* C9 as stated: over N >= 1 examples, test_label_generator and valid return
\* exactly N class ids, entry i the arg-max class of example i's logits.
C9_OneIdPerExample ==
  (pc = "idle" /\ fn \in {"test_label_generator", "valid"} /\ testN >= 1) =>
    /\ raised = ""
    /\ Len(ReturnedIds) = testN
    /\ \A i \in 1..testN : ReturnedIds[i] = ClassOfExample(i)

\* t came out of a fusion step, then the Linear layer h, Tanh and dropout.
FusedVia(t, h) ==
  /\ Len(t.hist) >= 5
  /\ SubSeq(t.hist, Len(t.hist) - 4, Len(t.hist))
       = <<"pool", "squeeze", h.name, "Tanh", "dropout">>

\* C10 as stated: every tensor entering the final concatenation is a fused
\* branch (via h1, h4, h2, h3), and the concatenation goes through two
\* Linear+Tanh+dropout stages and a final Linear.
C10_OnlyFusedBranches ==
  DirectOk =>
    LET parts == LastTrace.parts
    IN /\ Len(parts) = 4
       /\ FusedVia(parts[1], h1)
       /\ FusedVia(parts[2], h4)
       /\ FusedVia(parts[3], h2)
       /\ FusedVia(parts[4], h3)
       /\ fwd.out.hist = <<"cat", hidden3.name, "Tanh", "dropout", hidden2.name, "Tanh",
                           "dropout", classifier.name>>

\* The number of batches a loader yields over n rows.
Batches(loader, n) == (n + loader.batch_size - 1) \div loader.batch_size

TrainRunning == fn = "train" /\ pc # "idle"

\* C11: in train every batch has one forward pass (with loss and accuracy)
\* followed by one optimizer step, the forward pass using the weights as they
\* were before that step; when no call of train is running the weights have
\* been updated (calls of train) * (batches of the loader) times.
C11_OneStepPerBatch ==
  /\ (fn = "train" /\ pc = "step") =>
       /\ fwd.caller = "train" /\ fwd.w = weights
       /\ nb_tr_steps = bi + 1 /\ weights = w0 + bi
  /\ (fn = "train" /\ pc = "loop") => (nb_tr_steps = bi /\ weights = w0 + bi)
  /\ TrainRunning => w0 = (nTrain - 1) * Batches(training_loader, trainN)
  /\ ~TrainRunning => weights = nTrain * Batches(training_loader, trainN)

\* MaxTrain calls of train over a loader of two batches have returned.
C11_Witness ==
  /\ fn = "train" /\ pc = "idle" /\ raised = "" /\ nTrain = MaxTrain
  /\ Batches(training_loader, trainN) = 2 /\ weights = MaxTrain * 2

\* The indices the first k batches of one pass hold, in the order yielded.
RECURSIVE EpochOrder(_, _, _, _)
EpochOrder(loader, n, sh, k) ==
  IF k = 0 THEN <<>>
  ELSE EpochOrder(loader, n, sh, k - 1) \o BatchIdxs(loader, n, sh, k - 1)

\* C13: in every training epoch each example is in exactly one batch, every
\* batch but the last holds TRAIN_BATCH_SIZE examples and the last the
\* remainder, and nb_tr_examples at the end of train's loop is the size of
\* the training set.
C13_EveryExampleOnce ==
  fn = "train" /\ pc # "idle" =>
    LET K == Batches(training_loader, trainN)
        order == EpochOrder(training_loader, trainN, shift, K)
    IN /\ Len(order) = trainN
       /\ \A i \in 1..trainN : Cardinality({q \in 1..Len(order) : order[q] = i}) = 1
       /\ \A k \in 0..(K - 1) :
            Len(BatchIdxs(training_loader, trainN, shift, k))
              = (IF k < K - 1 THEN TRAIN_BATCH_SIZE
                 ELSE trainN - (K - 1) * TRAIN_BATCH_SIZE)
       /\ (pc = "step" => fwd.input = BatchIdxs(training_loader, trainN, shift, bi))
       /\ (pc = "loop" => nb_tr_examples = Min2(trainN, bi * TRAIN_BATCH_SIZE))
       /\ (pc = "loop" /\ ~HasBatch(training_loader, trainN, bi) => nb_tr_examples = trainN)

\* The loop of a shuffled epoch over a full batch and a remainder has ended.
C13_Witness ==
  /\ fn = "train" /\ pc = "loop" /\ ~HasBatch(training_loader, trainN, bi)
  /\ trainN = TRAIN_BATCH_SIZE + 1 /\ shift = MaxShift /\ bi = 2
  /\ nb_tr_examples = trainN

\* The keys a loop reads that are no key of the items its dataset yields.
Unserved(reads, ds) == reads \ KeysOf(ds)

\* C20: valid names the batch field 'gcn_bert_large' where train and
\* test_label_generator name 'gcn_bert_base'; the three loops read the same
\* fields otherwise, and the only forward passes recorded are those of the
\* loops that name 'gcn_bert_base'.
C20_ValidReadsLarge ==
  /\ "gcn_bert_large" \in ValidReads /\ "gcn_bert_base" \notin ValidReads
  /\ "gcn_bert_base" \in TrainReads \cap TestReads
  /\ "gcn_bert_large" \notin TrainReads \cup TestReads
  /\ ValidReads \ {"gcn_bert_large"} = TrainReads \ {"gcn_bert_base"}
  /\ Unserved(ValidReads, vali_loader.dataset) = {"gcn_bert_large"}
  /\ Unserved(TrainReads, training_loader.dataset) = {}
  /\ Unserved(TestReads, testing_loader.dataset) = {}
  /\ fwd.caller # "valid"

\* valid has read its first batch after a call of train that completed.
C20_Witness ==
  /\ fn = "valid" /\ prevFn = "train" /\ pc = "idle" /\ testN >= 1
  /\ raised = "KeyError" /\ fwd = NoCall

\* How far a running call of train is through its pass: statements of the
\* loop executed so far.
TrainProgress == 2 * bi + (IF pc = "step" THEN 1 ELSE 0)

\* C12: the notebook calls train EPOCHS = 4 times, with epoch 0, 1, 2, 3 in
\* that order; every call returns after one pass over the training loader
\* (each of its steps advances the pass, which has Batches batches, and it
\* leaves by return at the end of the pass); valid, test_label_generator and
\* the report run only once the last epoch has returned.
C12_EpochsThenEvaluation ==
  /\ [](/\ nTrain <= EPOCHS
        /\ (TrainRunning => EpochArg \in 0..(EPOCHS - 1))
        /\ (Cell # "train" =>
              /\ nTrain = EPOCHS /\ EpochArg = 3
              /\ weights = EPOCHS * Batches(training_loader, trainN)))
  /\ [][nTrain' # nTrain => (nTrain' = nTrain + 1 /\ ~TrainRunning /\ fn \in {"", "train"})]_vars
  /\ [](TrainRunning => TrainProgress <= 2 * Batches(training_loader, trainN))
  /\ [][(TrainRunning /\ pc' # "idle") => TrainProgress' = TrainProgress + 1]_vars
  /\ [][(TrainRunning /\ pc' = "idle") =>
          (raised' = "" /\ bi = Batches(training_loader, trainN))]_vars

\* The report has been printed after four epochs over two batches each.
C12_Witness ==
  /\ report = "printed" /\ nTrain = 4 /\ EpochArg = 3
  /\ Batches(training_loader, trainN) = 2 /\ weights = 8
  /\ testN > VALID_BATCH_SIZE

\* C17 as stated: once the weights have been reloaded, the model that makes
\* the reported predictions is the reloaded one.
C17_ReloadedModelPredicts ==
  (model_test.loaded /\ fwd.caller = "test_label_generator") => fwd.w = model_test.w

\* C14: train_data (new_df sampled with frac=1, then reset_index) holds the
\* rows of new_df, each as often as new_df does, none dropped and none
\* duplicated; and training_set[i] is built, for the text, the label and all
\* eight auxiliary vectors, from the cells of one row: row i of train_data,
\* which is a row of new_df.
Count(rows, r) == Cardinality({p \in 1..Len(rows) : rows[p] = r})
IsPermutationOf(a, b) ==
  /\ Len(a) = Len(b)
  /\ \A p \in 1..Len(b) : Count(a, b[p]) = Count(b, b[p])
C14_ShuffleKeepsRows ==
  /\ (dstep \in {"reset_index", "ready"}
        => IsPermutationOf(frames.train_data.rows, frames.new_df.rows))
  /\ ((got.op = "getitem" /\ got.ds = "training_set")
        => /\ got.raised = ""
           /\ got.item = ItemOfCells("SentimentData", frames.train_data.rows[got.idxs[1]])
           /\ \E p \in 1..Len(frames.new_df.rows) :
                got.item = ItemOfCells("SentimentData", frames.new_df.rows[p]))
C14_Witness ==
  /\ got.op = "getitem" /\ got.ds = "training_set" /\ got.idxs = <<2>>
  /\ Len(frames.new_df.rows) = 3
  /\ frames.train_data.rows[2] = frames.new_df.rows[3]
  /\ frames.train_data.rows[1] # frames.new_df.rows[1]
  /\ got.item["targets"].data = frames.new_df.rows[3]["label"].v
  /\ got.item["visual"].data = frames.new_df.rows[3]["visual_embedding"].v

\* C15: when an example of a batch lacks an auxiliary vector (its cell is NaN:
\* the visual table had no row for its index label, or the pickle held none),
\* the pass over that batch ends in an exception and no logits are produced.
MissingFields(ds, index) ==
  {k \in AuxSet : ~SeriesGet(FrameOf(ds), ColumnOf(k), index).present}
C15_MissingVectorRaises ==
  (got.op = "batch" /\ \E q \in 1..Len(got.idxs) : MissingFields(got.ds, got.idxs[q]) # {})
    => (got.raised # "" /\ IsErr(got.out))

\* C16: for every text (empty, shorter than the limit, at it, longer) both
\* dataset classes return ids, mask and token_type_ids of exactly MAX_LEN
\* entries: the tokens (at most MAX_LEN - 2 of them, the first ones of the
\* text) between the two special tokens, then padding; mask is 1 on exactly
\* the positions before the padding and 0 on the padding.
TextRead == SeriesGet(FrameOf(got.ds), "text", got.idxs[1]).v
C16_FixedLength ==
  (got.op = "getitem" /\ got.raised = "")
    => LET text == TextRead
           kept == Min2(Len(text), MAX_LEN - 2)
           ids == got.item["ids"]
           mask == got.item["mask"]
       IN /\ \A k \in TokenKeys :
               /\ got.item[k].shape = <<MAX_LEN>>
               /\ Len(got.item[k].data) = MAX_LEN
          /\ ids.data[1] = Special.cls
          /\ \A c \in 1..kept : ids.data[c + 1] = text[c]
          /\ ids.data[kept + 2] = Special.sep
          /\ \A c \in 1..MAX_LEN :
               /\ mask.data[c] = (IF c <= kept + 2 THEN 1 ELSE 0)
               /\ (c > kept + 2 => ids.data[c] = Special.pad)
C16_Witness ==
  /\ got.op = "getitem" /\ got.ds = "test" /\ got.raised = ""
  /\ Len(TextRead) > MAX_LEN
  /\ got.item["ids"].shape = <<MAX_LEN>>
  /\ got.item["mask"].data[MAX_LEN] = 1

\* C18: once the configuration cell has run, QUICK_RUN = True has selected
\* TRAIN_DATA_USED_FRACTION = 0.001, DEV_DATA_USED_FRACTION = 0.01,
\* NUM_EPOCHS = 1 and WARMUP_STEPS = 10, and QUICK_RUN = False has left 1, 1, 2
\* and 2500; no quick value exceeds the full one; the three sample() calls are
\* given these fractions (the training one for train_df, the development one
\* for both development tables) and classifier.fit these epochs and warm-up
\* steps.
Selected ==
  <<nli.TRAIN_DATA_USED_FRACTION, nli.DEV_DATA_USED_FRACTION, nli.NUM_EPOCHS,
    nli.WARMUP_STEPS>>
C18_QuickRunSelects ==
  (ncell \notin {"", "Configurations"}) =>
    /\ (nli.QUICK_RUN => Selected = <<1, 10, 1, 10>>)
    /\ (~nli.QUICK_RUN => Selected = <<1 * PerMille, 1 * PerMille, 2, 2500>>)
    /\ \A k \in 1..4 : Selected[k] <= <<1 * PerMille, 1 * PerMille, 2, 2500>>[k]
    /\ ("sampled" \in DOMAIN nli =>
          nli.sampled = [train_df |-> Selected[1], dev_df_matched |-> Selected[2],
                         dev_df_mismatched |-> Selected[2]])
    /\ (ncell = "predict" =>
          nli.classifier.fit = [num_epochs |-> Selected[3], warmup_steps |-> Selected[4]])
C18_Witness ==
  /\ ncell = "predict" /\ nli.QUICK_RUN
  /\ nli.sampled.train_df = 1 /\ nli.sampled.dev_df_matched = 10
  /\ nli.classifier.fit = [num_epochs |-> 1, warmup_steps |-> 10]
  /\ NRows(nli.train_df) = 3 /\ NRows(nli.dev_df_matched) = 1

\* C19: the classifier is built with num_labels equal to the number of
\* distinct gold_label values of the sampled training table, and that number
\* is 3 (contradiction, entailment, neutral) whatever the configuration.
C19_ThreeLabels ==
  ("classifier" \in DOMAIN nli) =>
    /\ nli.classifier.num_labels = Cardinality(Unique(nli.train_df))
    /\ nli.label_encoder = NLIClasses
    /\ nli.classifier.num_labels = 3

\* The loader the running (or last) function iterates over.
LoaderOf(f) ==
  IF f = "train" THEN training_loader
  ELSE IF f = "valid" THEN vali_loader ELSE testing_loader

\* C21 as stated: every field a loop reads from its batch is a key of the
\* items of the dataset behind its loader, and no call of train, valid or
\* test_label_generator ends with a missing-field error (KeyError).
C21_FieldsServed ==
  fn # "" =>
    /\ Unserved(ReadsOf(LoaderOf(fn)), LoaderOf(fn).dataset) = {}
    /\ raised # "KeyError"

\* Every row of df whose index label the table visual has holds the vector
\* visual has under that label.
OwnVisual(df, visual) ==
  \A p \in 1..Len(df.rows) :
    Loc(visual.index, df.index[p]) # 0
      => df.rows[p]["visual_embedding"]
           = SeriesGet(visual, "visual_embedding", df.index[p])

\* C23 as stated: once the visual_embedding columns are assigned, every row of
\* the training table holds the vector train_visual (visual_train.pkl) has
\* under its index label, and every row of the test table the one test_visual
\* (visual_test.pkl) has under its label.
C23_OwnSplitVisual ==
  dstep \notin {"", "visual"} =>
    /\ OwnVisual(frames.df_train, frames.train_visual)
    /\ OwnVisual(frames.df_test, frames.test_visual)

\* C24: while train or valid runs, 0 <= n_correct <= nb_tr_examples,
\* nb_tr_steps is the number of batches processed so far and nb_tr_examples
\* the number of examples in them; when the loop has ended over at least one
\* example, the accuracy n_correct*100/nb_tr_examples is between 0 and 100.
C24_Counters ==
  (fn \in {"train", "valid"} /\ pc # "idle") =>
    LET n == IF fn = "train" THEN trainN ELSE testN
    IN /\ 0 <= n_correct /\ n_correct <= nb_tr_examples
       /\ nb_tr_steps = (IF pc = "step" THEN bi + 1 ELSE bi)
       /\ nb_tr_examples = Len(EpochOrder(LoaderOf(fn), n, shift, nb_tr_steps))
       /\ (pc = "loop" /\ ~HasBatch(LoaderOf(fn), n, bi) /\ nb_tr_examples > 0) =>
            /\ 0 <= n_correct * 100
            /\ n_correct * 100 <= 100 * nb_tr_examples

\* train's loop has ended after two batches, some predictions correct and
\* some not.
C24_Witness ==
  /\ fn = "train" /\ pc = "loop" /\ ~HasBatch(training_loader, trainN, bi)
  /\ nb_tr_steps = 2 /\ nb_tr_examples = TRAIN_BATCH_SIZE + 1
  /\ 0 < n_correct /\ n_correct < nb_tr_examples

\* The tensor t with the cells the training table has in column f, shape and
\* history kept.
OtherValues(t, f) ==
  IF IsErr(t) \/ Len(t.shape) # 2 THEN t
  ELSE Tensor(t.shape,
              Tup([r \in 1..t.shape[1] |-> ColumnRow("train_data", seed, f, r, t.shape[2])]),
              t.hist)

\* The batches that differ from the batch of input in pos_emb and/or
\* char_number, and in nothing else: pos_emb alone (other values, one row
\* more, another width), char_number alone (among cs), and both.
VariantsOf(in, cs) ==
  LET b == DirectArgs(in)
      other == OtherValues(b.pos_emb, "pos_emb")
      ps == {other, MisShaped("pos_emb", "rows", in.B), MisShaped("pos_emb", "width", in.B)}
  IN ({[b EXCEPT !.pos_emb = p] : p \in ps}
        \cup {[b EXCEPT !.char_number = c] : c \in cs}
        \cup {[b EXCEPT !.pos_emb = other, !.char_number = c] : c \in cs}) \ {b}

\* char_number with other values in the shape the batch has it in.
SameShapeCharNumbers(in) ==
  {DirectArgs(in).char_number, OtherValues(DirectArgs(in).char_number, "char_number")}

\* char_number in any shape: also one row more, or another width.
AnyCharNumbers(in) ==
  SameShapeCharNumbers(in)
    \cup {MisShaped("char_number", "rows", in.B), MisShaped("char_number", "width", in.B)}

\* C22 as stated: in evaluation mode with the weights fixed, every batch that
\* differs from the one passed only in pos_emb and/or char_number gives the
\* result the call gave.
C22_IgnoresPosEmbCharNumber ==
  (Direct /\ ~fwd.training) =>
    \A v \in VariantsOf(fwd.input, AnyCharNumbers(fwd.input)) :
      Forward(fwd.w, FALSE, fwd.rng, v) = fwd.out

\* C22 (amended): in evaluation mode with the weights fixed, every batch that
\* differs from the one passed only in pos_emb (values or shape) and/or in the
\* values of char_number, its shape kept, gives the result the call gave.
C22_IgnoresPosEmbCharValues ==
  (Direct /\ ~fwd.training) =>
    \A v \in VariantsOf(fwd.input, SameShapeCharNumbers(fwd.input)) :
      Forward(fwd.w, FALSE, fwd.rng, v) = fwd.out

\* An evaluation-mode call on MaxB well-formed rows returned logits, and the
\* variants hold a char_number and a pos_emb of other values.
C22_Witness ==
  /\ DirectOk /\ ~fwd.training /\ fwd.input.kind = "none" /\ fwd.input.B = MaxB
  /\ Cardinality(SameShapeCharNumbers(fwd.input)) = 2
  /\ Cardinality(VariantsOf(fwd.input, SameShapeCharNumbers(fwd.input))) = 5

\* C25 as stated: the BATCH_SIZE the configuration cell leaves, and the loaders
\* are handed, is a positive integer: 16 where CUDA is available and 8 where
\* it is not, whatever QUICK_RUN is; no cell ends the run with an exception.
C25_BatchSizeInteger ==
  (ncell \notin {"", "Configurations"}) =>
    /\ nli.BATCH_SIZE.type = "int"
    /\ nli.BATCH_SIZE.den = 1
    /\ nli.BATCH_SIZE.num = (IF nli.device_count > 0 THEN 16 ELSE 8)
    /\ ncell # "raised"

\* The report of one dev split against the table it is about.
ReportAligned(df, predictions, report_name) ==
  (report_name \in DOMAIN nli) =>
    LET rep == nli[report_name]
        rows == RowsOf(nli[df], nli.row_order[df])
        of == nli[predictions].of
        classes == Classes(Unique(nli.train_df))
    IN /\ Len(rep.y_pred) = Len(rep.y_true)
       /\ Len(rep.y_true) = Len(rows)
       /\ Len(of) = Len(rows)
       /\ \A i \in 1..Len(rows) :
            /\ rep.y_true[i] # "-"
            /\ rep.y_true[i] = rows[i][1]
            /\ of[i] = rows[i]
            /\ rep.y_pred[i] = classes[PredictOne(nli.classifier, rows[i]) + 1]

\* C26: from the filter cell on neither dev table holds a row whose
\* gold_label is '-'; the dev loaders are not shuffled; and in each report
\* the predictions and the gold labels have the length of the table, no gold
\* label is '-', the i-th prediction was computed from the i-th row of the
\* table, and it is the class the encoder fitted on the training labels has
\* for the predicted id.
C26_ReportAligned ==
  /\ (ncell \notin {"", "Configurations", "load", "filter"}) =>
       nli.dev_df_matched["-"] = 0 /\ nli.dev_df_mismatched["-"] = 0
  /\ ("dev_dataloader_matched" \in DOMAIN nli) =>
       /\ ~nli.dev_dataloader_matched.shuffle /\ ~nli.dev_dataloader_mismatched.shuffle
       /\ Examples(nli.dev_dataloader_matched.dataset)
            = RowsOf(nli.dev_df_matched, nli.row_order.dev_df_matched)
       /\ Examples(nli.dev_dataloader_mismatched.dataset)
            = RowsOf(nli.dev_df_mismatched, nli.row_order.dev_df_mismatched)
  /\ ReportAligned("dev_df_matched", "predictions_matched", "report_matched")
  /\ ReportAligned("dev_df_mismatched", "predictions_mismatched", "report_mismatched")

\* A full run has reported both dev splits, a hundred rows each, held by the
\* tables in an order that ends with a row of the first class, the
\* predictions not all of one class.
C26_Witness ==
  /\ ncell = "done" /\ ~nli.QUICK_RUN
  /\ Len(nli.report_matched.y_true) = 100 /\ Len(nli.report_mismatched.y_pred) = 100
  /\ nli.row_order.dev_df_matched = MaxShift
  /\ nli.report_matched.y_true[100] = "contradiction"
  /\ \E i, j \in 1..100 : nli.report_matched.y_pred[i] # nli.report_matched.y_pred[j]

====
